---- MODULE Spec2Model ----
(***************************************************************************)
(* Model of the network interface monitor of the SRTLA sender plugin       *)
(* (src/src/network-monitor.cpp, network-monitor.h) together with the      *)
(* subscriber the relay registers on it (src/src/srtla-relay.cpp).         *)
(*                                                                         *)
(* Threads are the detached monitorThread instances ("poll loops") and the *)
(* threads of the host that call the monitor's public methods.  Every      *)
(* statement that touches shared state (m_running, m_mutex, m_interfaces,  *)
(* m_callbacks) is one atomic step; purely local statements are merged     *)
(* into the step that precedes them.                                       *)
(***************************************************************************)
EXTENDS Integers, Sequences, FiniteSets, TLC

\* ------------------------------------------------------------------ bounds

\* The enumeration clock (a history variable that stamps every getifaddrs
\* pass) saturates at this value; stamps below it are exact.
MaxEnum == 2

\* No handler that can launch a relay process runs once this many of them are
\* alive.
MaxLive == 2

\* registerCallback is not offered once the list holds this many callbacks.
MaxCallbacks == 2

\* The monitorThread instances that can exist at once, and the host threads:
\* T1 uses the whole interface of the monitor, T2 only start() and stop().
Loops == {"L1", "L2"}
Callers == {"T1", "T2"}
Threads == Loops \cup Callers

NoThread == "none"

\* ----------------------------------------------------- the host's interfaces

\* sockaddr of an AF_INET entry: the four octets of sin_addr.
Inet(a, b, c, d) == [sa_family |-> "AF_INET", sin_addr |-> <<a, b, c, d>>]

\* sockaddr of an entry of another family (AF_PACKET, AF_INET6).
OtherFamily(f) == [sa_family |-> f, sin_addr |-> <<>>]

NullAddr == [sa_family |-> "NULL", sin_addr |-> <<>>]

\* One node of the getifaddrs list.
IfAddr(name, addr, flags) == [ifa_name |-> name, ifa_addr |-> addr, ifa_flags |-> flags]

UpRunning == {"IFF_UP", "IFF_RUNNING"}

\* The interface lists the operating system can report, in list order.
\*  1: eth0 up with 192.168.1.5, wlan0 down without an address, and lo
\*  2: two interfaces carrying the same address
\*  3: eth0 and wlan0 up, two addresses
\*  4: the same two interfaces enumerated in the other order
\*  5: nothing usable: eth0 is down, wlan0 has no IPv4 address, lo
\*  6: 127.0.0.1 bound to dummy0, which is not named lo and does not carry
\*     IFF_LOOPBACK, beside eth0
\*  7: three addresses: eth0, wlan0 and the modem ppp0
\*  8: eth0 and ppp0
\*  9: eth0 alone, with two IPv4 addresses bound to it
HostConfigs ==
    << << IfAddr("lo", Inet(127, 0, 0, 1), UpRunning \cup {"IFF_LOOPBACK"}),
          IfAddr("eth0", OtherFamily("AF_PACKET"), UpRunning),
          IfAddr("wlan0", OtherFamily("AF_PACKET"), {}),
          IfAddr("eth0", Inet(192, 168, 1, 5), UpRunning) >>,
       << IfAddr("eth0", Inet(192, 168, 1, 5), UpRunning),
          IfAddr("usb0", Inet(192, 168, 1, 5), UpRunning) >>,
       << IfAddr("eth0", Inet(192, 168, 1, 5), UpRunning),
          IfAddr("wlan0", Inet(192, 168, 1, 9), UpRunning) >>,
       << IfAddr("wlan0", Inet(192, 168, 1, 9), UpRunning),
          IfAddr("eth0", Inet(192, 168, 1, 5), UpRunning) >>,
       << IfAddr("lo", Inet(127, 0, 0, 1), UpRunning \cup {"IFF_LOOPBACK"}),
          IfAddr("eth0", Inet(192, 168, 1, 5), {"IFF_UP"}),
          IfAddr("wlan0", NullAddr, {}) >>,
       << IfAddr("dummy0", Inet(127, 0, 0, 1), UpRunning),
          IfAddr("eth0", Inet(192, 168, 1, 5), UpRunning) >>,
       << IfAddr("eth0", Inet(192, 168, 1, 5), UpRunning),
          IfAddr("wlan0", Inet(192, 168, 1, 9), UpRunning),
          IfAddr("ppp0", Inet(10, 64, 0, 2), UpRunning \cup {"IFF_POINTOPOINT"}) >>,
       << IfAddr("eth0", Inet(192, 168, 1, 5), UpRunning),
          IfAddr("ppp0", Inet(10, 64, 0, 2), UpRunning \cup {"IFF_POINTOPOINT"}) >>,
       << IfAddr("eth0", Inet(192, 168, 1, 5), UpRunning),
          IfAddr("eth0", Inet(192, 168, 1, 9), UpRunning) >> >>

\* Every list above.
AllHosts == 1..Len(HostConfigs)

\* The lists the machine of the concurrent specification moves between.
HostIds == {1, 2}

\* ---------------------------------------------------------- pure functions

\* std::string::find(prefix) == 0
StartsWith(s, prefix) ==
    Len(s) >= Len(prefix) /\ SubSeq(s, 1, Len(prefix)) = prefix

\* inet_ntop(AF_INET, ...): the dotted-decimal text of four octets.
inet_ntop(o) ==
    ToString(o[1]) \o "." \o ToString(o[2]) \o "." \o ToString(o[3]) \o "." \o ToString(o[4])

\* The NetworkInterface built for one AF_INET node.
MakeInterface(ifa) ==
    [name |-> ifa.ifa_name,
     ipAddress |-> inet_ntop(ifa.ifa_addr.sin_addr),
     isWireless |-> \/ StartsWith(ifa.ifa_name, "wlan")
                    \/ StartsWith(ifa.ifa_name, "wifi")
                    \/ StartsWith(ifa.ifa_name, "wl"),
     isEthernet |-> \/ StartsWith(ifa.ifa_name, "eth")
                    \/ StartsWith(ifa.ifa_name, "en")
                    \/ StartsWith(ifa.ifa_name, "eno")
                    \/ StartsWith(ifa.ifa_name, "enp"),
     isModem |-> \/ StartsWith(ifa.ifa_name, "ppp")
                 \/ StartsWith(ifa.ifa_name, "tun")
                 \/ StartsWith(ifa.ifa_name, "tap"),
     isActive |-> "IFF_UP" \in ifa.ifa_flags /\ "IFF_RUNNING" \in ifa.ifa_flags]

\* The loop over the getifaddrs list.
\* (mutant) the loop without its test for loopback interfaces
RECURSIVE DetectLoop_withLoopback(_, _)
DetectLoop_withLoopback(list, interfaces) ==
    IF list = <<>> THEN interfaces
    ELSE LET ifa == Head(list)
         IN  IF ifa.ifa_addr.sa_family = "NULL"
             THEN DetectLoop_withLoopback(Tail(list), interfaces)
             ELSE IF ifa.ifa_addr.sa_family # "AF_INET"
                  THEN DetectLoop_withLoopback(Tail(list), interfaces)
             ELSE DetectLoop_withLoopback(Tail(list), Append(interfaces, MakeInterface(ifa)))

RECURSIVE DetectLoop(_, _)
DetectLoop(list, interfaces) ==
    IF list = <<>> THEN interfaces
    ELSE LET ifa == Head(list)
         IN  IF ifa.ifa_addr.sa_family = "NULL" THEN DetectLoop(Tail(list), interfaces)
             ELSE IF ifa.ifa_addr.sa_family # "AF_INET" THEN DetectLoop(Tail(list), interfaces)
             ELSE IF ifa.ifa_name = "lo" \/ "IFF_LOOPBACK" \in ifa.ifa_flags
                  THEN DetectLoop(Tail(list), interfaces)
             ELSE DetectLoop(Tail(list), Append(interfaces, MakeInterface(ifa)))

\* detectNetworkInterfaces: ok is FALSE when getifaddrs returns -1.
detectNetworkInterfaces(list, ok) ==
    IF ~ok THEN <<>> ELSE DetectLoop(list, <<>>)

\* (mutant) the filter without its test of isActive
IsRelevant_anyState(iface) ==
    /\ iface.ipAddress # ""
    /\ iface.ipAddress # "127.0.0.1"
    /\ iface.name # "lo"

\* The filter both loops of haveInterfacesChanged apply.
IsRelevant(iface) ==
    /\ iface.isActive
    /\ iface.ipAddress # ""
    /\ iface.ipAddress # "127.0.0.1"
    /\ iface.name # "lo"

RECURSIVE RelevantIps(_)
RelevantIps(interfaces) ==
    IF interfaces = <<>> THEN <<>>
    ELSE IF IsRelevant(Head(interfaces))
         THEN <<Head(interfaces).ipAddress>> \o RelevantIps(Tail(interfaces))
         ELSE RelevantIps(Tail(interfaces))

\* operator< of std::string on the address texts the hosts above produce.
IpRank(ip) ==
    CASE ip = "10.64.0.2" -> 1
      [] ip = "127.0.0.1" -> 2
      [] ip = "192.168.1.5" -> 3
      [] ip = "192.168.1.9" -> 4
      [] OTHER -> 0

RECURSIVE InsertSorted(_, _)
InsertSorted(ip, sorted) ==
    IF sorted = <<>> THEN <<ip>>
    ELSE IF IpRank(ip) <= IpRank(Head(sorted)) THEN <<ip>> \o sorted
    ELSE <<Head(sorted)>> \o InsertSorted(ip, Tail(sorted))

\* std::sort on a vector of address strings.
RECURSIVE SortIps(_)
SortIps(ips) ==
    IF ips = <<>> THEN <<>> ELSE InsertSorted(Head(ips), SortIps(Tail(ips)))

\* (mutant) an address counts as another one when it is carried by a
\* wireless interface
haveInterfacesChanged_typed(oldInterfaces, newInterfaces) ==
    LET Typed(ifs) == {<<ifs[k].ipAddress, ifs[k].isWireless>> :
                          k \in {i \in 1..Len(ifs) : IsRelevant(ifs[i])}}
    IN  Typed(oldInterfaces) # Typed(newInterfaces)

\* (mutant) only the two sizes are compared
haveInterfacesChanged_sizes(oldInterfaces, newInterfaces) ==
    Len(RelevantIps(oldInterfaces)) # Len(RelevantIps(newInterfaces))

haveInterfacesChanged(oldInterfaces, newInterfaces) ==
    LET oldIps == SortIps(RelevantIps(oldInterfaces))
        newIps == SortIps(RelevantIps(newInterfaces))
    IN  IF Len(oldIps) # Len(newIps) THEN TRUE
        ELSE \E i \in 1..Len(oldIps) : oldIps[i] # newIps[i]

\* (mutant) a line for every entry of the snapshot
SaveLines_all(interfaces) ==
    [k \in 1..Len(interfaces) |-> interfaces[k].ipAddress]

\* saveIpListToFile: the lines the loop over `interfaces` writes.
RECURSIVE SaveLines(_)
SaveLines(interfaces) ==
    IF interfaces = <<>> THEN <<>>
    ELSE LET interface == Head(interfaces)
         IN  IF interface.ipAddress = "127.0.0.1" \/ interface.name = "lo"
             THEN SaveLines(Tail(interfaces))
             ELSE IF interface.isActive /\ interface.ipAddress # ""
                  THEN <<interface.ipAddress>> \o SaveLines(Tail(interfaces))
                  ELSE SaveLines(Tail(interfaces))

\* ------------------------------------------------------------------- state

VARIABLES
    host,               \* which of HostConfigs the operating system reports now
    enumClock,          \* history: number of enumerations so far, saturating
    m_running,          \* NetworkMonitor::m_running
    m_interfaces,       \* NetworkMonitor::m_interfaces, with its enumeration stamp
    m_mutex,            \* owner of NetworkMonitor::m_mutex, or NoThread
    m_callbacks,        \* NetworkMonitor::m_callbacks: the kind of each callback
    pc,                 \* position of every thread
    lastInterfaces,     \* monitorThread's local, per loop
    currentInterfaces,  \* monitorThread's local, per loop, with its stamp
    notify_interfaces,  \* notifyNetworkChange's local `interfaces`, per loop
    save_interfaces,    \* saveIpListToFile's local `interfaces`, per thread
    cbIndex,            \* notifyNetworkChange: position in m_callbacks, per loop
    regArg,             \* registerCallback's argument, per caller
    ipFile,             \* lines of the IP list file (m_ipListPath)
    aborted,            \* the process was terminated by an uncaught exception
    notified,           \* history: the loop called notifyNetworkChange this iteration
    log,                \* history: callbacks invoked by the loop's current notification,
                        \* each with m_processRunning as it was at the call
    lastDelivered,      \* history: stamp of the snapshot the last finished notification passed
    consec,             \* history: start() calls a caller made in a row, no stop() between
    stopped,            \* history: stop() hit a running monitor, no start() since
    loopPool,           \* the thread slots start() may use; fixed by Init
    hostPool,           \* the interface lists the machine moves between; fixed by Init
    getResult,          \* getNetworkInterfaces' return value until the caller has it
    lastStored,         \* history: the value of the last assignment to m_interfaces
    detected,           \* detectNetworkInterfaces' return value, per direct caller
    saveRet,            \* saveIpListToFile's return value until the caller has it
    m_processRunning,   \* SrtlaRelay::m_processRunning
    hupSent,            \* history: onNetworkChange ran killall -HUP, per loop
    firstIteration,     \* history: the loop has not finished an iteration since its start
    realIpFile,         \* the lines of the file at realIpPath (startSrtlaProcess), with
                        \* the detection they were written from (history)
    destroyed,          \* the NetworkMonitor has been destroyed
    idleStop,           \* history: the last start()/stop() call was a stop() that
                        \* found m_running false
    m_server,           \* SrtlaRelay::m_server
    m_localPort,        \* SrtlaRelay::m_localPort
    m_useFixedPort,     \* SrtlaRelay::m_useFixedPort
    m_bidirectionalSync, \* SrtlaRelay::m_bidirectionalSync
    m_latency,          \* SrtlaRelay::m_latency
    m_autoStart,        \* SrtlaRelay::m_autoStart
    m_processId,        \* SrtlaRelay::m_processId
    m_ipListPath,       \* SrtlaRelay::m_ipListPath; fixed by the constructor
    home,               \* getenv("HOME"), if it is set; fixed by Init
    live,               \* the srtla_send processes the plugin launched that are alive
    lastCmd,            \* history: the local port and the IP list path of the last
                        \* command startSrtlaProcess ran, with the sync setting, the
                        \* local port and the fixed-port flag the call found, and
                        \* the flag as the call left it
    startedBy,          \* history: who asked for the relay that is marked running
    streaming,          \* "no"; "starting" from STREAMING_STARTING until the output
                        \* has initialized its service; then "yes" until _STOPPING
    lastSync,           \* history: the latency in the URL that syncFromOBSService
                        \* read, when the last event was a sync from the service
    extractIn,          \* the arguments of a call of extractSRTParamsFromURL
    extractOut          \* its outputs, once it has returned

callVars == <<hostPool, getResult, lastStored, detected, saveRet, m_processRunning,
              hupSent, idleStop>>

\* The state of the later sections: the loop's first iteration, the file the
\* relay hands to its process, the lifetime of the monitor object.
moreVars == <<firstIteration, realIpFile, destroyed>>

\* The relay's settings and its process, the environment they depend on and
\* their history.
relayVars == <<m_server, m_localPort, m_useFixedPort, m_bidirectionalSync, m_latency,
               m_autoStart, m_processId, m_ipListPath, home, live, lastCmd, startedBy,
               streaming, lastSync, extractIn, extractOut>>

vars == <<host, enumClock, m_running, m_interfaces, m_mutex, m_callbacks, pc,
          lastInterfaces, currentInterfaces, notify_interfaces, save_interfaces,
          cbIndex, regArg, ipFile,
          aborted, notified, log, lastDelivered, consec, stopped, loopPool, callVars, moreVars, relayVars>>

monitorVars == <<m_running, m_interfaces, m_mutex, m_callbacks>>
loopVars == <<lastInterfaces, currentInterfaces, notify_interfaces, cbIndex>>
histOnly == <<notified, log, lastDelivered, consec, stopped, loopPool>>
histVars == <<notified, log, lastDelivered, consec, stopped, loopPool, callVars, moreVars, relayVars>>

\* A snapshot nobody enumerated: the default-constructed vector.  Beside the
\* vector a snapshot carries its history: the stamp of the enumeration that
\* made it, and whether getifaddrs succeeded.
NoSnapshot == [ifs |-> <<>>, at |-> 0, ok |-> TRUE]

\* The file at realIpPath before startSrtlaProcess has written it.
NoFile == [lines |-> <<>>, from |-> <<>>]

\* The callbacks a thread can subscribe: the relay's lambda (onNetworkChange)
\* and a subscriber that does not call back into the monitor.
CallbackKinds == {"relay", "plain"}

\* ------------------------------------------------------- SrtlaRelay settings
\* The relay object as a record of the fields the functions below read and
\* write, with the history that goes with them.  A function of the relay is an
\* operator from the record before the call to the record after it, so that a
\* handler which calls several of them is their composition.

\* The relay of the current state.
Relay ==
    [m_server |-> m_server, m_localPort |-> m_localPort,
     m_useFixedPort |-> m_useFixedPort, m_bidirectionalSync |-> m_bidirectionalSync,
     m_latency |-> m_latency, m_autoStart |-> m_autoStart,
     m_processRunning |-> m_processRunning, m_processId |-> m_processId,
     live |-> live, lastCmd |-> lastCmd, startedBy |-> startedBy,
     realIpFile |-> realIpFile]

\* The relay of the next state is r.
RelayBecomes(r) ==
    \E next \in {r} :
        /\ m_server' = next.m_server
        /\ m_localPort' = next.m_localPort
        /\ m_useFixedPort' = next.m_useFixedPort
        /\ m_bidirectionalSync' = next.m_bidirectionalSync
        /\ m_latency' = next.m_latency
        /\ m_autoStart' = next.m_autoStart
        /\ m_processRunning' = next.m_processRunning
        /\ m_processId' = next.m_processId
        /\ live' = next.live
        /\ lastCmd' = next.lastCmd
        /\ startedBy' = next.startedBy
        /\ realIpFile' = next.realIpFile

\* The value of HOME in the sample environment that has it.
HomeDir == "/home/user"

\* SrtlaRelay::SrtlaRelay: m_ipListPath.  tempPath is "~/srtla_relay_temp" and
\* keeps the tilde when HOME is set and the expanded directory exists or was
\* made (expandedOk); it is the /tmp directory when HOME is unset or a
\* directory could not be made (tempOk: the directory named by tempPath exists
\* or was made).
ConstructorIpListPath(env, expandedOk, tempOk) ==
    IF env # <<>> /\ expandedOk /\ tempOk
    THEN "~/srtla_relay_temp/ip_bank.txt"
    ELSE "/tmp/srtla_relay_temp/ip_bank.txt"

\* startSrtlaProcess: realIpPath.
RealIpPath(env) ==
    IF env # <<>>
    THEN "/home/user/srtla_relay_temp/ip_bank.txt"
    ELSE "/tmp/srtla_relay_temp/ip_bank.txt"

\* (mutant) nothing is written when no interface was added
RelayIpLines_noFallback(interfaces) == RelevantIps(interfaces)

\* What startSrtlaProcess writes to the file at realIpPath: the address of
\* every active, addressed, non-loopback entry, or the default address when
\* there is none (added == false).
RelayIpLines(interfaces) ==
    IF RelevantIps(interfaces) # <<>> THEN RelevantIps(interfaces) ELSE <<"192.168.1.100">>

\* ---- text and numbers

Digits == <<"0", "1", "2", "3", "4", "5", "6", "7", "8", "9">>

IsDigit(c) == \E d \in 1..10 : Digits[d] = c

DigitValue(c) == (CHOOSE d \in 1..10 : Digits[d] = c) - 1

\* The longest prefix of digits of a text (a sequence of characters).
RECURSIVE DigitPrefix(_)
DigitPrefix(text) ==
    IF text = <<>> \/ ~IsDigit(Head(text)) THEN <<>>
    ELSE <<Head(text)>> \o DigitPrefix(Tail(text))

\* The number a sequence of digits denotes under a sign (1 or -1), after the
\* digits read so far.
RECURSIVE Decimal(_, _, _)
Decimal(digits, sign, acc) ==
    IF digits = <<>> THEN acc
    ELSE Decimal(Tail(digits), sign, 10 * acc + sign * DigitValue(Head(digits)))

\* Leading blanks dropped.
RECURSIVE SkipBlanks(_)
SkipBlanks(text) ==
    IF text # <<>> /\ Head(text) = " " THEN SkipBlanks(Tail(text)) ELSE text

\* Leading zeros dropped.
RECURSIVE SkipZeros(_)
SkipZeros(digits) ==
    IF digits # <<>> /\ Head(digits) = "0" THEN SkipZeros(Tail(digits)) ELSE digits

\* The digits, at most ten and none a leading zero, denote under the sign a
\* value of an int: between -2147483648 and 2147483647.
FitsInt(digits, sign) ==
    \/ Len(digits) < 10
    \/ /\ Len(digits) = 10
       /\ LET high == Decimal(SubSeq(digits, 1, 9), 1, 0)
              low  == DigitValue(digits[10])
          IN  \/ high < 214748364
              \/ high = 214748364 /\ low <= (IF sign = 1 THEN 7 ELSE 8)

\* std::stoi: blanks, a sign, then the digits up to the first other character.
\* No result (an exception) when there is no digit or the value does not fit
\* an int.
stoi(text) ==
    LET body   == SkipBlanks(text)
        signed == body # <<>> /\ Head(body) \in {"-", "+"}
        sign   == IF signed /\ Head(body) = "-" THEN -1 ELSE 1
        digits == DigitPrefix(IF signed THEN Tail(body) ELSE body)
    IN  IF digits = <<>> \/ ~FitsInt(SkipZeros(digits), sign) THEN <<>>
        ELSE <<Decimal(SkipZeros(digits), sign, 0)>>

\* static_cast<uint16_t>(int)
ToUint16(n) == n % 65536

\* std::to_string of a number that is not negative.
RECURSIVE to_string(_)
to_string(n) ==
    IF n < 10 THEN <<Digits[n + 1]>>
    ELSE to_string(n \div 10) \o <<Digits[(n % 10) + 1]>>

\* ---- the OBS stream URL
\* A URL is its scheme ("" for the empty URL), the text after the first colon
\* of the host part if there is a colon, and the value of its latency
\* parameter if it has one.

\* extractSRTParamsFromURL(url, port, latency, streamId): the outputs, given
\* the URL and the value of port at the call.
extractSRTParamsFromURL(url, port) ==
    IF url.scheme # "srt"
    THEN [ok |-> FALSE, port |-> port, latency |-> 2000]
    ELSE [ok |-> TRUE,
          port |-> IF url.port = <<>> \/ stoi(url.port[1]) = <<>> THEN port
                   ELSE LET extractedPort == ToUint16(stoi(url.port[1])[1])
                        IN  IF extractedPort > 0 THEN extractedPort ELSE port,
          latency |-> IF url.latency = <<>> \/ stoi(url.latency[1]) = <<>> THEN 2000
                      ELSE stoi(url.latency[1])[1]]

\* buildSRTURL(port, latency, streamId)
buildSRTURL(r, port, latency) ==
    [scheme |-> "srt",
     port |-> <<to_string(IF port > 0 THEN port ELSE r.m_localPort)>>,
     latency |-> <<to_string(IF latency >= 1000 THEN latency ELSE r.m_latency)>>]

\* ---- setters

setServer(r, server) == [r EXCEPT !.m_server = server]

setLocalPort(r, port) == [r EXCEPT !.m_localPort = port]

setUseFixedPort(r, enable) == [r EXCEPT !.m_useFixedPort = enable]

setLatency(r, latency) == [r EXCEPT !.m_latency = latency]

setAutoStart(r, enable) == [r EXCEPT !.m_autoStart = enable]

\* ---- the relay process
\* The outcomes of one call of startSrtlaProcess that the call does not
\* decide: created (the directory exists or was made and the ofstream opened),
\* ok (getifaddrs succeeded), launched (system(cmd) returned 0), rnd (the port
\* generateRandomPort drew); and by, the history of who asked for the start.
\* pgrep, run right after the launch, prints the PID of the new process.  An outcome is listed once: what a call did not
\* get to is counted as failed.
StartOutcomes(by) ==
    {o \in [created : BOOLEAN, ok : BOOLEAN, launched : BOOLEAN,
            rnd : {10000}, by : {by}] :
        /\ o.launched => o.created
        /\ o.ok \/ o.created}

\* The outcomes to consider for a handler: those of a start if the handler
\* gets to startSrtlaProcess with a server configured, one otherwise.
OutcomesIf(starts, by) ==
    IF starts THEN StartOutcomes(by)
    ELSE {[created |-> FALSE, ok |-> TRUE, launched |-> FALSE, rnd |-> 10000, by |-> by]}

\* (mutant) the port is drawn at random whenever the fixed-port flag is off
StartPort_flagOnly(r, rnd) ==
    IF ~r.m_useFixedPort \/ r.m_localPort = 0 THEN rnd ELSE r.m_localPort

\* startSrtlaProcess: the local port the call settles on.
StartPort(r, rnd) ==
    IF r.m_bidirectionalSync
    THEN IF r.m_localPort = 0 THEN 9000 ELSE r.m_localPort
    ELSE IF ~r.m_useFixedPort \/ r.m_localPort = 0 THEN rnd ELSE r.m_localPort

\* startSrtlaProcess on the interface list `ifaddrs` in the environment `env`.
\* The command is run whether or not a relay is marked running.
startSrtlaProcess(r, ifaddrs, env, o) ==
    IF r.m_server = "" THEN r
    ELSE LET ported == IF r.m_bidirectionalSync
                       THEN setUseFixedPort(setLocalPort(r, StartPort(r, o.rnd)), TRUE)
                       ELSE setLocalPort(r, StartPort(r, o.rnd))
             interfaces == detectNetworkInterfaces(ifaddrs, o.ok)
             written == [ported EXCEPT
                            !.realIpFile = [lines |-> RelayIpLines(interfaces),
                                            from |-> interfaces],
                            !.lastCmd = <<[localPort |-> ported.m_localPort,
                                           ipList |-> RealIpPath(env),
                                           sync |-> r.m_bidirectionalSync,
                                           configured |-> r.m_localPort,
                                           fixedBefore |-> r.m_useFixedPort,
                                           fixed |-> ported.m_useFixedPort]>>]
         IN  IF ~o.created THEN ported
             ELSE IF ~o.launched THEN written
             ELSE [written EXCEPT !.m_processRunning = TRUE,
                                  !.m_processId = 1,
                                  !.live = @ + 1,
                                  !.startedBy = o.by]

\* stopSrtlaProcess: the process m_processId names is killed, or every
\* srtla_send process when no PID is held.
stopSrtlaProcess(r) ==
    IF ~r.m_processRunning THEN r
    ELSE [r EXCEPT !.m_processRunning = FALSE,
                   !.m_processId = -1,
                   !.live = IF r.m_processId > 0 /\ @ > 0 THEN @ - 1 ELSE 0,
                   !.startedBy = "none"]

\* restartWithPort(port).  The history of who asked for the relay is kept over
\* the restart of a running one.
restartWithPort(r, port, ifaddrs, env, o) ==
    startSrtlaProcess(setLocalPort(stopSrtlaProcess(r), port), ifaddrs, env,
                      [o EXCEPT !.by = IF r.m_processRunning THEN r.startedBy ELSE @])

\* ---- synchronisation with the OBS service

\* syncFromOBSService.  service: whether OBS has a streaming service, and its
\* URL; uninit: the value the uninitialized local `port` holds at the call of
\* extractSRTParamsFromURL.  An empty or non-SRT URL is rewritten in OBS and
\* the relay's settings are left alone.
syncFromOBSService(r, service, uninit, ifaddrs, env, o) ==
    IF ~service.present THEN r
    ELSE LET x == extractSRTParamsFromURL(service.url, uninit)
         IN  IF ~x.ok THEN r
             ELSE LET ported ==
                          IF x.port > 0 /\ x.port # r.m_localPort
                          THEN LET fixed == setUseFixedPort(setLocalPort(r, x.port), TRUE)
                               IN  IF fixed.m_processRunning
                                   THEN restartWithPort(fixed, x.port, ifaddrs, env, o)
                                   ELSE fixed
                          ELSE r
                  IN  IF x.latency # 2000 /\ x.latency # ported.m_latency
                      THEN setLatency(ported, x.latency)
                      ELSE ported

\* setBidirectionalSync(enable).  When newly enabled it forces the fixed-port
\* flag, writes the URL built from the relay's settings to the OBS service and
\* then syncs from the service, which, if there is one, holds that URL.
setBidirectionalSync(r, enable, present, ifaddrs, env, o) ==
    LET set == [r EXCEPT !.m_bidirectionalSync = enable]
    IN  IF enable /\ ~r.m_bidirectionalSync
        THEN LET fixed == setUseFixedPort(set, TRUE)
                 forced == buildSRTURL(fixed, fixed.m_localPort, fixed.m_latency)
             IN  syncFromOBSService(fixed, [present |-> present, url |-> forced],
                                    0, ifaddrs, env, o)
        ELSE set

\* loadSettings: the settings after the call, given the stored ones (no
\* result when the file does not exist).
loadSettings(r, stored) ==
    IF stored = <<>>
    THEN [r EXCEPT !.m_server = "", !.m_autoStart = FALSE, !.m_latency = 2000,
                   !.m_useFixedPort = TRUE, !.m_localPort = 9000]
    ELSE LET s == stored[1]
         IN  [r EXCEPT !.m_server = s.server,
                       !.m_autoStart = s.autoStart,
                       !.m_latency = IF s.latency < 1000 \/ s.latency > 8000
                                     THEN 2000 ELSE s.latency,
                       !.m_useFixedPort = s.useFixedPort,
                       !.m_localPort = IF s.localPort = 0 THEN 9000 ELSE s.localPort,
                       !.m_bidirectionalSync = s.bidirectionalSync]

\* The relay as the constructor makes it.
ConstructedRelay ==
    [m_server |-> "", m_localPort |-> 9000, m_useFixedPort |-> TRUE,
     m_bidirectionalSync |-> TRUE, m_latency |-> 2000, m_autoStart |-> FALSE,
     m_processRunning |-> FALSE, m_processId |-> -1, live |-> 0, lastCmd |-> <<>>,
     startedBy |-> "none", realIpFile |-> NoFile]

\* The relay is r, as at the end of obs_module_load.
RelayIs(r) ==
    /\ m_server = r.m_server
    /\ m_localPort = r.m_localPort
    /\ m_useFixedPort = r.m_useFixedPort
    /\ m_bidirectionalSync = r.m_bidirectionalSync
    /\ m_latency = r.m_latency
    /\ m_autoStart = r.m_autoStart
    /\ m_processRunning = r.m_processRunning
    /\ m_processId = r.m_processId
    /\ live = r.live
    /\ lastCmd = r.lastCmd
    /\ startedBy = r.startedBy
    /\ realIpFile = r.realIpFile

\* The relay with a server configured and nothing else changed, in an
\* environment with HOME set.
RelayConfigured ==
    /\ RelayIs(setServer(ConstructedRelay, "relay.example"))
    /\ home = <<HomeDir>>
    /\ m_ipListPath = ConstructorIpListPath(home, TRUE, TRUE)
    /\ streaming = "no"
    /\ lastSync = <<>>
    /\ extractIn = <<>>
    /\ extractOut = <<>>

Init ==
    /\ host \in HostIds
    /\ enumClock = 0
    /\ m_running = FALSE
    /\ m_interfaces = NoSnapshot
    /\ m_mutex = NoThread
    /\ m_callbacks = <<>>
    /\ pc = [t \in Threads |-> "idle"]
    /\ lastInterfaces = [l \in Loops |-> <<>>]
    /\ currentInterfaces = [l \in Loops |-> NoSnapshot]
    /\ notify_interfaces = [l \in Loops |-> NoSnapshot]
    /\ save_interfaces = [t \in Threads |-> NoSnapshot]
    /\ cbIndex = [l \in Loops |-> 0]
    /\ regArg = [t \in Callers |-> "plain"]
    /\ ipFile = <<>>
    /\ aborted = FALSE
    /\ notified = [l \in Loops |-> FALSE]
    /\ log = [l \in Loops |-> <<>>]
    /\ lastDelivered = 0
    /\ consec = [t \in Callers |-> 0]
    /\ stopped = FALSE
    /\ loopPool = {"L1"}
    /\ hostPool = HostIds
    /\ getResult = [t \in Callers |-> <<>>]
    /\ lastStored = NoSnapshot
    /\ detected = [t \in Callers |-> <<>>]
    /\ saveRet = [t \in Threads |-> <<>>]
    /\ hupSent = [l \in Loops |-> FALSE]
    /\ idleStop = FALSE
    /\ firstIteration = [l \in Loops |-> FALSE]
    /\ destroyed = FALSE
    /\ RelayConfigured

\* One enumeration pass, stamped with the (saturating) enumeration clock.
NextStamp == IF enumClock < MaxEnum THEN enumClock + 1 ELSE MaxEnum
Enumerate(ok) ==
    [ifs |-> detectNetworkInterfaces(HostConfigs[host], ok), at |-> NextStamp, ok |-> ok]

\* std::lock_guard's constructor and destructor on m_mutex.
Lock(t) == m_mutex = NoThread /\ m_mutex' = t
Unlock(t) == m_mutex' = NoThread

\* ------------------------------------------------------------- environment

\* The set of interfaces of the machine changes while the process lives.
EnvChange ==
    /\ ~aborted
    /\ \E h \in hostPool \ {host} : host' = h
    /\ UNCHANGED <<enumClock, monitorVars, pc, loopVars, save_interfaces, regArg,
                   ipFile, aborted, histVars>>

\* ------------------------------------------------- NetworkMonitor::monitorThread

\* while (m_running): the thread ends when it reads false.
LoopTest(l) ==
    /\ pc[l] = "while"
    /\ IF m_running
       THEN /\ pc' = [pc EXCEPT ![l] = "detect"]
            /\ UNCHANGED lastInterfaces
       ELSE /\ pc' = [pc EXCEPT ![l] = "idle"]
            /\ lastInterfaces' = [lastInterfaces EXCEPT ![l] = <<>>]
    /\ firstIteration' = [firstIteration EXCEPT ![l] = @ /\ m_running]
    /\ UNCHANGED <<host, enumClock, monitorVars, currentInterfaces, notify_interfaces,
                   cbIndex, save_interfaces, regArg, ipFile, aborted, histOnly, callVars,
                   realIpFile, destroyed, relayVars>>

\* currentInterfaces = detectNetworkInterfaces(); if (haveInterfacesChanged(...))
LoopDetect(l) ==
    /\ pc[l] = "detect"
    /\ \E ok \in BOOLEAN :
         LET cur == Enumerate(ok)
         IN  /\ currentInterfaces' = [currentInterfaces EXCEPT ![l] = cur]
             /\ pc' = [pc EXCEPT ![l] =
                         IF haveInterfacesChanged(lastInterfaces[l], cur.ifs)
                         THEN "store_lock" ELSE "sleep"]
    /\ enumClock' = NextStamp
    /\ UNCHANGED <<host, monitorVars, lastInterfaces, notify_interfaces, cbIndex,
                   save_interfaces, regArg, ipFile, aborted, histVars>>

\* std::lock_guard<std::mutex> lock(m_mutex);  (line 102)
StoreLock(l) ==
    /\ pc[l] = "store_lock"
    /\ Lock(l)
    /\ pc' = [pc EXCEPT ![l] = "store"]
    /\ UNCHANGED <<host, enumClock, m_running, m_interfaces, m_callbacks, loopVars,
                   save_interfaces, regArg, ipFile, aborted, histVars>>

\* m_interfaces = currentInterfaces; and the end of the guarded block
Store(l) ==
    /\ pc[l] = "store"
    /\ m_interfaces' = currentInterfaces[l]
    /\ lastStored' = currentInterfaces[l]
    /\ Unlock(l)
    /\ pc' = [pc EXCEPT ![l] = "notify_lock"]
    /\ UNCHANGED <<host, enumClock, m_running, m_callbacks, loopVars,
                   save_interfaces, regArg, ipFile, aborted, histOnly, hostPool,
                   getResult, detected, saveRet, m_processRunning, hupSent, idleStop, moreVars, relayVars>>

\* (mutant) the baseline is replaced only when a change was signalled
Sleep_onlyOnChange(l) ==
    /\ pc[l] = "sleep"
    /\ lastInterfaces' = [lastInterfaces EXCEPT ![l] = IF notified[l] THEN currentInterfaces[l].ifs ELSE @]
    /\ currentInterfaces' = [currentInterfaces EXCEPT ![l] = NoSnapshot]
    /\ notified' = [notified EXCEPT ![l] = FALSE]
    /\ log' = [log EXCEPT ![l] = <<>>]
    /\ firstIteration' = [firstIteration EXCEPT ![l] = FALSE]
    /\ pc' = [pc EXCEPT ![l] = "while"]
    /\ UNCHANGED <<host, enumClock, monitorVars, notify_interfaces, cbIndex,
                   save_interfaces, regArg, ipFile, aborted, lastDelivered, consec,
                   stopped, loopPool, callVars, realIpFile, destroyed, relayVars>>

\* lastInterfaces = currentInterfaces; sleep_for(5 s).  currentInterfaces is
\* destroyed at the end of the loop body; the iteration's history ends with it.
Sleep(l) ==
    /\ pc[l] = "sleep"
    /\ lastInterfaces' = [lastInterfaces EXCEPT ![l] = currentInterfaces[l].ifs]
    /\ currentInterfaces' = [currentInterfaces EXCEPT ![l] = NoSnapshot]
    /\ notified' = [notified EXCEPT ![l] = FALSE]
    /\ log' = [log EXCEPT ![l] = <<>>]
    /\ firstIteration' = [firstIteration EXCEPT ![l] = FALSE]
    /\ pc' = [pc EXCEPT ![l] = "while"]
    /\ UNCHANGED <<host, enumClock, monitorVars, notify_interfaces, cbIndex,
                   save_interfaces, regArg, ipFile, aborted, lastDelivered, consec,
                   stopped, loopPool, callVars, realIpFile, destroyed, relayVars>>

\* ------------------------------------------- NetworkMonitor::notifyNetworkChange

\* std::lock_guard<std::mutex> lock(m_mutex);  (line 202)
NotifyLock(l) ==
    /\ pc[l] = "notify_lock"
    /\ Lock(l)
    /\ pc' = [pc EXCEPT ![l] = "notify_copy"]
    /\ UNCHANGED <<host, enumClock, m_running, m_interfaces, m_callbacks, loopVars,
                   save_interfaces, regArg, ipFile, aborted, histVars>>

\* interfaces = m_interfaces;
NotifyCopy(l) ==
    /\ pc[l] = "notify_copy"
    /\ notify_interfaces' = [notify_interfaces EXCEPT ![l] = m_interfaces]
    /\ cbIndex' = [cbIndex EXCEPT ![l] = 1]
    /\ notified' = [notified EXCEPT ![l] = TRUE]
    /\ pc' = [pc EXCEPT ![l] = "notify_cb"]
    /\ UNCHANGED <<host, enumClock, monitorVars, lastInterfaces, currentInterfaces,
                   save_interfaces, regArg, ipFile, aborted, log, lastDelivered, consec,
                   stopped, loopPool, callVars, moreVars, relayVars>>

\* (mutant) the list is walked from its end
CallbackAt_reversed(i) == Len(m_callbacks) + 1 - i

\* The range-for over m_callbacks: the element visited in the i-th round.
CallbackAt(i) == i

\* callback(interfaces): the call of the next element of m_callbacks
CallbackBegin(l) ==
    /\ pc[l] = "notify_cb"
    /\ cbIndex[l] <= Len(m_callbacks)
    /\ LET i == CallbackAt(cbIndex[l])
       IN  /\ log' = [log EXCEPT ![l] =
                        Append(@, [cb |-> i, arg |-> notify_interfaces[l].ifs,
                                   done |-> FALSE, running |-> m_processRunning])]
           /\ pc' = [pc EXCEPT ![l] =
                       IF m_callbacks[i] = "relay" THEN "cb_relay" ELSE "cb_plain"]
    /\ UNCHANGED <<host, enumClock, monitorVars, loopVars, save_interfaces, regArg,
                   ipFile, aborted, notified, lastDelivered, consec, stopped, loopPool, callVars, moreVars, relayVars>>

\* The callback returned to the range-for.
CallbackReturned(l) ==
    /\ log' = [log EXCEPT ![l][Len(log[l])].done = TRUE]
    /\ cbIndex' = [cbIndex EXCEPT ![l] = @ + 1]

\* A subscriber that does not use the monitor returns.
CallbackEnd(l) ==
    /\ pc[l] = "cb_plain"
    /\ CallbackReturned(l)
    /\ pc' = [pc EXCEPT ![l] = "notify_cb"]
    /\ UNCHANGED <<host, enumClock, monitorVars, lastInterfaces, currentInterfaces,
                   notify_interfaces, save_interfaces, regArg, ipFile, aborted,
                   notified, lastDelivered, consec, stopped, loopPool, callVars, moreVars, relayVars>>

\* The range-for is over: the lock_guard is destroyed, the function returns.
NotifyDone(l) ==
    /\ pc[l] = "notify_cb"
    /\ cbIndex[l] > Len(m_callbacks)
    /\ Unlock(l)
    /\ notify_interfaces' = [notify_interfaces EXCEPT ![l] = NoSnapshot]
    /\ cbIndex' = [cbIndex EXCEPT ![l] = 0]
    /\ lastDelivered' = IF log[l] # <<>> THEN notify_interfaces[l].at ELSE lastDelivered
    /\ pc' = [pc EXCEPT ![l] = "sleep"]
    /\ UNCHANGED <<host, enumClock, m_running, m_interfaces, m_callbacks,
                   lastInterfaces, currentInterfaces, save_interfaces, regArg, ipFile,
                   aborted, notified, log, consec, stopped, loopPool, callVars, moreVars, relayVars>>

\* --------------------------------------------- NetworkMonitor::saveIpListToFile
\* Called by a host thread, or by a poll loop from inside the relay's callback
\* (SrtlaRelay::onNetworkChange, whose first statement this call is).

SaveEntry(t) == IF t \in Loops THEN "cb_relay" ELSE "idle"

\* interfaces = detectNetworkInterfaces();
SaveDetect(t) ==
    /\ pc[t] = SaveEntry(t)
    /\ \E ok \in BOOLEAN :
         save_interfaces' = [save_interfaces EXCEPT ![t] = Enumerate(ok)]
    /\ enumClock' = NextStamp
    /\ pc' = [pc EXCEPT ![t] = "save_lock"]
    /\ consec' = [c \in Callers |-> IF c = t THEN 0 ELSE consec[c]]
    /\ UNCHANGED <<host, monitorVars, loopVars, regArg, ipFile, aborted, notified, log,
                   lastDelivered, stopped, loopPool, callVars, moreVars, relayVars>>

\* (mutant) the block of line 46 without its lock_guard
SaveLock_unguarded(t) ==
    /\ pc[t] = "save_lock"
    /\ pc' = [pc EXCEPT ![t] = "save_store"]
    /\ UNCHANGED <<host, enumClock, monitorVars, loopVars, save_interfaces, regArg,
                   ipFile, aborted, histVars>>

\* std::lock_guard<std::mutex> lock(m_mutex);  (line 47)
SaveLock(t) ==
    /\ pc[t] = "save_lock"
    /\ Lock(t)
    /\ pc' = [pc EXCEPT ![t] = "save_store"]
    /\ UNCHANGED <<host, enumClock, m_running, m_interfaces, m_callbacks, loopVars,
                   save_interfaces, regArg, ipFile, aborted, histVars>>

\* The same statement executed by the thread that already owns m_mutex, which
\* std::mutex leaves undefined.  The pthread mutex under it never returns (the
\* thread stays at "save_lock" for ever, which needs no step); an
\* implementation that detects the relock throws std::system_error, which
\* nothing catches on the poll thread, and the process is terminated with
\* all its threads.
SaveRelock(t) ==
    /\ pc[t] = "save_lock"
    /\ m_mutex = t
    /\ aborted' = TRUE
    /\ pc' = [x \in Threads |-> "terminated"]
    /\ UNCHANGED <<host, enumClock, monitorVars, loopVars, save_interfaces,
                   regArg, ipFile, histVars>>

\* (mutant) the snapshot is not stored before the file is opened
SaveStore_deferred(t) ==
    /\ pc[t] = "save_store"
    /\ UNCHANGED <<m_interfaces, lastStored>>
    /\ Unlock(t)
    /\ pc' = [pc EXCEPT ![t] = "save_file"]
    /\ UNCHANGED <<host, enumClock, m_running, m_callbacks, loopVars,
                   save_interfaces, regArg, ipFile, aborted, histOnly, hostPool,
                   getResult, detected, saveRet, m_processRunning, hupSent, idleStop, moreVars, relayVars>>

\* m_interfaces = interfaces; and the end of the guarded block
SaveStore(t) ==
    /\ pc[t] = "save_store"
    /\ m_interfaces' = save_interfaces[t]
    /\ lastStored' = save_interfaces[t]
    /\ Unlock(t)
    /\ pc' = [pc EXCEPT ![t] = "save_file"]
    /\ UNCHANGED <<host, enumClock, m_running, m_callbacks, loopVars,
                   save_interfaces, regArg, ipFile, aborted, histOnly, hostPool,
                   getResult, detected, saveRet, m_processRunning, hupSent, idleStop, moreVars, relayVars>>

\* (mutant) a call that found nothing to write reports failure
SaveResult_emptyFails(is_open, interfaces) ==
    IF ~is_open THEN FALSE
    ELSE IF SaveLines(interfaces) = <<>> THEN FALSE
    ELSE TRUE

\* The value saveIpListToFile returns: false at line 53, true at line 79
\* (nothing was written) and at line 85.
SaveResult(is_open, interfaces) ==
    IF ~is_open THEN FALSE
    ELSE IF SaveLines(interfaces) = <<>> THEN TRUE
    ELSE TRUE

\* std::ofstream file(filePath) and the loop that writes the lines; opening
\* truncates the file.  A host thread then has the return value.  On a poll
\* loop the call returns into onNetworkChange, which runs killall -HUP when
\* m_processRunning is set and returns to the range-for of notifyNetworkChange.
SaveFile(t) ==
    /\ pc[t] = "save_file"
    /\ \E is_open \in BOOLEAN :
         /\ ipFile' = IF is_open THEN SaveLines(save_interfaces[t].ifs) ELSE ipFile
         /\ IF t \in Loops
            THEN UNCHANGED saveRet
            ELSE saveRet' = [saveRet EXCEPT ![t] =
                               <<[opened |-> is_open,
                                  result |-> SaveResult(is_open, save_interfaces[t].ifs)]>>]
    /\ IF t \in Loops
       THEN /\ CallbackReturned(t)
            /\ save_interfaces' = [save_interfaces EXCEPT ![t] = NoSnapshot]
            /\ hupSent' = [hupSent EXCEPT ![t] = m_processRunning]
            /\ pc' = [pc EXCEPT ![t] = "notify_cb"]
       ELSE /\ pc' = [pc EXCEPT ![t] = "save_ret"]
            /\ UNCHANGED <<cbIndex, log, save_interfaces, hupSent>>
    /\ UNCHANGED <<host, enumClock, monitorVars, lastInterfaces, currentInterfaces,
                   notify_interfaces, regArg, aborted, notified, lastDelivered, consec,
                   stopped, loopPool, hostPool, getResult, lastStored, detected,
                   m_processRunning, idleStop, moreVars, relayVars>>

\* The caller has the return value; the local `interfaces` is gone.
SaveReturn(t) ==
    /\ pc[t] = "save_ret"
    /\ saveRet' = [saveRet EXCEPT ![t] = <<>>]
    /\ save_interfaces' = [save_interfaces EXCEPT ![t] = NoSnapshot]
    /\ pc' = [pc EXCEPT ![t] = "idle"]
    /\ UNCHANGED <<host, enumClock, monitorVars, loopVars, regArg, ipFile, aborted,
                   histOnly, hostPool, getResult, lastStored, detected,
                   m_processRunning, hupSent, idleStop, moreVars, relayVars>>

\* ------------------------------------------------ NetworkMonitor::start / stop

IdleLoops == {l \in loopPool : pc[l] = "idle"}
Spawning == {t \in Callers : pc[t] = "start_spawn"}
Bump(n) == IF n < 2 THEN n + 1 ELSE 2

\* if (m_running) return;   A call that goes on to spawn is offered while a
\* thread slot is left for it.
StartCheck(t) ==
    /\ pc[t] = "idle"
    /\ m_running \/ Cardinality(IdleLoops) > Cardinality(Spawning)
    /\ IF m_running
       THEN /\ consec' = [c \in Callers |-> IF c = t THEN Bump(consec[t]) ELSE 0]
            /\ UNCHANGED pc
       ELSE /\ pc' = [pc EXCEPT ![t] = "start_spawn"]
            /\ consec' = [c \in Callers |-> IF c = t THEN consec[t] ELSE 0]
    /\ stopped' = FALSE
    /\ idleStop' = FALSE
    /\ UNCHANGED <<host, enumClock, monitorVars, loopVars, save_interfaces, regArg,
                   ipFile, aborted, notified, log, lastDelivered, loopPool, hostPool,
                   getResult, lastStored, detected, saveRet, m_processRunning, hupSent, moreVars, relayVars>>

\* m_running = true; std::thread t(&NetworkMonitor::monitorThread, this); t.detach();
StartSpawn(t) ==
    /\ pc[t] = "start_spawn"
    /\ m_running' = TRUE
    /\ LET l == CHOOSE x \in IdleLoops : TRUE
       IN  /\ pc' = [pc EXCEPT ![t] = "idle", ![l] = "while"]
           /\ firstIteration' = [firstIteration EXCEPT ![l] = TRUE]
    /\ consec' = [c \in Callers |-> IF c = t THEN Bump(consec[t]) ELSE 0]
    /\ stopped' = FALSE
    /\ idleStop' = FALSE
    /\ UNCHANGED <<host, enumClock, m_interfaces, m_mutex, m_callbacks, loopVars,
                   save_interfaces, regArg, ipFile, aborted, notified, log, lastDelivered,
                   loopPool, hostPool, getResult, lastStored, detected, saveRet,
                   m_processRunning, hupSent, realIpFile, destroyed, relayVars>>

\* (mutant) stop() flips the flag instead of clearing it
Stop_toggle(t) ==
    /\ pc[t] = "idle"
    /\ m_running' = ~m_running
    /\ consec' = [c \in Callers |-> 0]
    /\ stopped' = (m_running \/ stopped)
    /\ idleStop' = ~m_running
    /\ UNCHANGED <<host, enumClock, m_interfaces, m_mutex, m_callbacks, pc, loopVars,
                   save_interfaces, regArg, ipFile, aborted, notified, log, lastDelivered,
                   loopPool, hostPool, getResult, lastStored, detected, saveRet,
                   m_processRunning, hupSent, moreVars, relayVars>>

\* m_running = false;
Stop(t) ==
    /\ pc[t] = "idle"
    /\ m_running' = FALSE
    /\ consec' = [c \in Callers |-> 0]
    /\ stopped' = (m_running \/ stopped)
    /\ idleStop' = ~m_running
    /\ UNCHANGED <<host, enumClock, m_interfaces, m_mutex, m_callbacks, pc, loopVars,
                   save_interfaces, regArg, ipFile, aborted, notified, log, lastDelivered,
                   loopPool, hostPool, getResult, lastStored, detected, saveRet,
                   m_processRunning, hupSent, moreVars, relayVars>>

\* --------------------------------------- NetworkMonitor::getNetworkInterfaces

\* std::lock_guard<std::mutex> lock(m_mutex);  (line 37)
GetLock(t) ==
    /\ pc[t] = "idle"
    /\ Lock(t)
    /\ pc' = [pc EXCEPT ![t] = "get_read"]
    /\ consec' = [consec EXCEPT ![t] = 0]
    /\ UNCHANGED <<host, enumClock, m_running, m_interfaces, m_callbacks, loopVars,
                   save_interfaces, regArg, ipFile, aborted, notified, log,
                   lastDelivered, stopped, loopPool, callVars, moreVars, relayVars>>

\* (mutant) the function returns a default-constructed vector
GetRead_default(t) ==
    /\ pc[t] = "get_read"
    /\ getResult' = [getResult EXCEPT ![t] = <<NoSnapshot>>]
    /\ Unlock(t)
    /\ pc' = [pc EXCEPT ![t] = "get_ret"]
    /\ UNCHANGED <<host, enumClock, m_running, m_interfaces, m_callbacks, loopVars,
                   save_interfaces, regArg, ipFile, aborted, histOnly, hostPool,
                   lastStored, detected, saveRet, m_processRunning, hupSent, idleStop, moreVars, relayVars>>

\* return m_interfaces;  The copy is made before the lock_guard is destroyed.
GetRead(t) ==
    /\ pc[t] = "get_read"
    /\ getResult' = [getResult EXCEPT ![t] = <<m_interfaces>>]
    /\ Unlock(t)
    /\ pc' = [pc EXCEPT ![t] = "get_ret"]
    /\ UNCHANGED <<host, enumClock, m_running, m_interfaces, m_callbacks, loopVars,
                   save_interfaces, regArg, ipFile, aborted, histOnly, hostPool,
                   lastStored, detected, saveRet, m_processRunning, hupSent, idleStop, moreVars, relayVars>>

\* The caller has the returned vector and drops it.
GetReturn(t) ==
    /\ pc[t] = "get_ret"
    /\ getResult' = [getResult EXCEPT ![t] = <<>>]
    /\ pc' = [pc EXCEPT ![t] = "idle"]
    /\ UNCHANGED <<host, enumClock, monitorVars, loopVars, save_interfaces, regArg,
                   ipFile, aborted, histOnly, hostPool, lastStored, detected, saveRet,
                   m_processRunning, hupSent, idleStop, moreVars, relayVars>>

\* ------------------------------------ NetworkMonitor::detectNetworkInterfaces
\* Called directly by a host thread (SrtlaRelay::startSrtlaProcess does).

\* (mutant) the enumeration is also stored as the snapshot
DetectCall_storing(t) ==
    /\ pc[t] = "idle"
    /\ \E ok \in BOOLEAN :
         /\ detected' = [detected EXCEPT ![t] = <<Enumerate(ok).ifs>>]
         /\ m_interfaces' = Enumerate(ok)
    /\ enumClock' = NextStamp
    /\ pc' = [pc EXCEPT ![t] = "detect_ret"]
    /\ consec' = [consec EXCEPT ![t] = 0]
    /\ UNCHANGED <<host, m_running, m_mutex, m_callbacks, loopVars, save_interfaces,
                   regArg, ipFile, aborted, notified, log, lastDelivered, stopped,
                   loopPool, hostPool, getResult, lastStored, saveRet,
                   m_processRunning, hupSent, idleStop, moreVars, relayVars>>

\* The whole function: it works on locals only and returns the vector.
DetectCall(t) ==
    /\ pc[t] = "idle"
    /\ \E ok \in BOOLEAN :
         detected' = [detected EXCEPT ![t] = <<Enumerate(ok).ifs>>]
    /\ enumClock' = NextStamp
    /\ pc' = [pc EXCEPT ![t] = "detect_ret"]
    /\ consec' = [consec EXCEPT ![t] = 0]
    /\ UNCHANGED <<host, monitorVars, loopVars, save_interfaces, regArg, ipFile,
                   aborted, notified, log, lastDelivered, stopped, loopPool, hostPool,
                   getResult, lastStored, saveRet, m_processRunning, hupSent, idleStop, moreVars, relayVars>>

\* The caller has the returned vector and drops it.
DetectReturn(t) ==
    /\ pc[t] = "detect_ret"
    /\ detected' = [detected EXCEPT ![t] = <<>>]
    /\ pc' = [pc EXCEPT ![t] = "idle"]
    /\ UNCHANGED <<host, enumClock, monitorVars, loopVars, save_interfaces, regArg,
                   ipFile, aborted, histOnly, hostPool, getResult, lastStored, saveRet,
                   m_processRunning, hupSent, idleStop, moreVars, relayVars>>

\* ------------------------------------------ NetworkMonitor::registerCallback

\* A thread calls registerCallback(callback).
RegCall(t) ==
    /\ pc[t] = "idle"
    /\ Len(m_callbacks) < MaxCallbacks
    /\ \E k \in CallbackKinds : regArg' = [regArg EXCEPT ![t] = k]
    /\ pc' = [pc EXCEPT ![t] = "reg_lock"]
    /\ consec' = [consec EXCEPT ![t] = 0]
    /\ UNCHANGED <<host, enumClock, monitorVars, loopVars, save_interfaces, ipFile,
                   aborted, notified, log, lastDelivered, stopped, loopPool, callVars, moreVars, relayVars>>

\* std::lock_guard<std::mutex> lock(m_mutex);  (line 89)
RegLock(t) ==
    /\ pc[t] = "reg_lock"
    /\ Lock(t)
    /\ pc' = [pc EXCEPT ![t] = "reg_push"]
    /\ UNCHANGED <<host, enumClock, m_running, m_interfaces, m_callbacks, loopVars,
                   save_interfaces, regArg, ipFile, aborted, histVars>>

\* m_callbacks.push_back(callback);
RegPush(t) ==
    /\ pc[t] = "reg_push"
    /\ m_callbacks' = Append(m_callbacks, regArg[t])
    /\ Unlock(t)
    /\ pc' = [pc EXCEPT ![t] = "idle"]
    /\ UNCHANGED <<host, enumClock, m_running, m_interfaces, loopVars,
                   save_interfaces, regArg, ipFile, aborted, histVars>>

\* ------------------------------------------------- the plugin's host events
\* The handlers of plugin-main.cpp and the service callback that start, stop
\* and configure the relay.  They run on the UI thread, one at a time.

\* What a handler of the relay leaves alone: the monitor and its threads.
monitorFrame == <<host, enumClock, monitorVars, pc, loopVars, save_interfaces, regArg,
                  ipFile, aborted, histOnly, hostPool, getResult, lastStored,
                  detected, saveRet, hupSent, idleStop, firstIteration, destroyed>>

\* The servers a user configures: none, or one.
Servers == {"", "relay.example"}

\* Values of the dialog's latency slider (range 1000..8000) and of its local
\* port box (range 1024..65535).
SliderLatencies == {8000}
DialogPorts == {9000, 9001}

\* Texts a user puts in the OBS stream URL after the host's colon and as the
\* latency parameter.
UrlPortTexts == {<<"9", "0", "0", "1">>}
UrlLatencyTexts == {<<"5", "0", "0">>, <<"2", "0", "0", "0">>}

\* The URLs the OBS service holds when the plugin reads it.
ServiceUrls ==
    [scheme : {"srt"},
     port : {<<>>} \cup {<<p>> : p \in UrlPortTexts},
     latency : {<<>>} \cup {<<l>> : l \in UrlLatencyTexts}]
    \cup [scheme : {"", "rtmp"}, port : {<<>>}, latency : {<<>>}]

\* What obs_frontend_get_streaming_service gives: no service, or one with a URL.
Services ==
    {[present |-> FALSE, url |-> [scheme |-> "", port |-> <<>>, latency |-> <<>>]]}
    \cup [present : {TRUE}, url : ServiceUrls]

\* The latency the URL of a service carries, if syncFromOBSService reads one.
UrlLatency(service) ==
    IF service.present /\ service.url.scheme = "srt" /\ service.url.latency # <<>>
    THEN stoi(service.url.latency[1])
    ELSE <<>>

\* toggle_srtla_sender (the Tools menu entry): stop_srtla_sender when the
\* relay is marked running, start_srtla_sender otherwise.  With no server
\* configured start_srtla_sender opens the settings dialog and returns.
toggle_srtla_sender(t) ==
    /\ pc[t] = "idle"
    /\ live < MaxLive
    /\ \E o \in OutcomesIf(~m_processRunning /\ m_server # "", "manual") :
         RelayBecomes(IF m_processRunning
                      THEN stopSrtlaProcess(Relay)
                      ELSE startSrtlaProcess(Relay, HostConfigs[host], home, o))
    /\ lastSync' = <<>>
    /\ UNCHANGED <<monitorFrame, m_ipListPath, home, streaming, extractIn, extractOut>>

\* on_event(OBS_FRONTEND_EVENT_STREAMING_STARTING)
on_event_STREAMING_STARTING(t) ==
    /\ pc[t] = "idle"
    /\ live < MaxLive
    /\ streaming = "no"
    /\ streaming' = "starting"
    /\ \E o \in OutcomesIf(m_autoStart /\ ~m_processRunning /\ m_server # "", "auto") :
         RelayBecomes(IF m_autoStart /\ ~m_processRunning
                      THEN startSrtlaProcess(Relay, HostConfigs[host], home, o)
                      ELSE Relay)
    /\ lastSync' = <<>>
    /\ UNCHANGED <<monitorFrame, m_ipListPath, home, extractIn, extractOut>>

\* on_event(OBS_FRONTEND_EVENT_STREAMING_STOPPING): the relay after it.
StreamingStopped(r) ==
    IF r.m_processRunning /\ r.m_autoStart THEN stopSrtlaProcess(r) ELSE r

on_event_STREAMING_STOPPING(t) ==
    /\ pc[t] = "idle"
    /\ streaming # "no"
    /\ streaming' = "no"
    /\ RelayBecomes(StreamingStopped(Relay))
    /\ lastSync' = <<>>
    /\ UNCHANGED <<monitorFrame, m_ipListPath, home, extractIn, extractOut>>

\* on_event(OBS_FRONTEND_EVENT_FINISHED_LOADING) and
\* on_event(OBS_FRONTEND_EVENT_SCENE_COLLECTION_CHANGED): syncFromOBSService
\* if bidirectional sync is enabled.
on_event_FINISHED_LOADING(t) ==
    /\ pc[t] = "idle"
    /\ live < MaxLive
    /\ m_bidirectionalSync
    /\ \E service \in Services :
       \E uninit \in {0, 9001} :
       \E o \in OutcomesIf(m_processRunning, "sync") :
         /\ RelayBecomes(syncFromOBSService(Relay, service, uninit,
                                            HostConfigs[host], home, o))
         /\ lastSync' = UrlLatency(service)
    /\ UNCHANGED <<monitorFrame, m_ipListPath, home, streaming, extractIn, extractOut>>

\* srtla_service_initialize, called by OBS when the streaming output starts
\* with the plugin's service selected: the server is taken from the service's settings and the
\* relay is started.
srtla_service_initialize(t) ==
    /\ pc[t] = "idle"
    /\ live < MaxLive
    /\ streaming = "starting"
    /\ streaming' = "yes"
    /\ \E server \in Servers :
       \E o \in OutcomesIf(server # "", "service") :
         RelayBecomes(startSrtlaProcess(setServer(Relay, server),
                                        HostConfigs[host], home, o))
    /\ lastSync' = <<>>
    /\ UNCHANGED <<monitorFrame, m_ipListPath, home, extractIn, extractOut>>

\* SRTLASettingsDialog::saveSettings, with a streaming service in OBS.  The
\* dialog keeps the fixed-port box checked while the bidirectional-sync box is.
SRTLASettingsDialog_saveSettings(t) ==
    /\ pc[t] = "idle"
    /\ live < MaxLive
    /\ \E server \in Servers :
       \E autoStart, useFixedPort, bidirectionalSync \in BOOLEAN :
       \E latency \in SliderLatencies :
       \E localPort \in DialogPorts :
       \E o \in OutcomesIf(m_processRunning /\ localPort # m_localPort, "dialog") :
         /\ bidirectionalSync => useFixedPort
         /\ LET oldPort == m_localPort
                set == setLocalPort(
                         setUseFixedPort(
                           setLatency(
                             setAutoStart(setServer(Relay, server), autoStart),
                             latency),
                           useFixedPort),
                         localPort)
                synced == setBidirectionalSync(set, bidirectionalSync, TRUE,
                                               HostConfigs[host], home, o)
                fixed == IF bidirectionalSync THEN setUseFixedPort(synced, TRUE)
                         ELSE synced
            IN  RelayBecomes(IF fixed.m_processRunning /\ oldPort # localPort
                             THEN restartWithPort(fixed, localPort,
                                                  HostConfigs[host], home, o)
                             ELSE fixed)
    /\ lastSync' = <<>>
    /\ UNCHANGED <<monitorFrame, m_ipListPath, home, streaming, extractIn, extractOut>>

\* ------------------------------------------- obs_module_unload / ~NetworkMonitor
\* delete g_srtlaRelay: ~SrtlaRelay stops the relay process and removes the
\* file at m_ipListPath; its member m_networkMonitor is then destroyed, and
\* ~NetworkMonitor only calls stop().  The detached poll threads are neither
\* joined nor told more than m_running = false.
obs_module_unload(t) ==
    /\ ~destroyed
    /\ \A c \in Callers : pc[c] = "idle"
    /\ RelayBecomes(stopSrtlaProcess(Relay))
    /\ ipFile' = <<>>
    /\ m_running' = FALSE
    /\ destroyed' = TRUE
    /\ consec' = [c \in Callers |-> 0]
    /\ stopped' = (m_running \/ stopped)
    /\ idleStop' = ~m_running
    /\ UNCHANGED <<host, enumClock, m_interfaces, m_mutex, m_callbacks, pc, loopVars,
                   save_interfaces, regArg, aborted, notified, log, lastDelivered,
                   loopPool, hostPool, getResult, lastStored, detected, saveRet,
                   hupSent, firstIteration, m_ipListPath, home, streaming, lastSync,
                   extractIn, extractOut>>

\* while (m_running) on a destroyed monitor reads freed memory.  Besides the
\* false that stop() wrote (LoopTest), the read can yield a stale or
\* overwritten nonzero value, and the loop goes on; or the access faults and
\* the process is terminated.
LoopTestAfterFree(l) ==
    /\ pc[l] = "while"
    /\ destroyed
    /\ \E outcome \in {"nonzero", "fault"} :
         IF outcome = "nonzero"
         THEN /\ pc' = [pc EXCEPT ![l] = "detect"]
              /\ UNCHANGED aborted
         ELSE /\ pc' = [x \in Threads |-> "terminated"]
              /\ aborted' = TRUE
    /\ UNCHANGED <<host, enumClock, monitorVars, loopVars, save_interfaces, regArg,
                   ipFile, histVars>>

\* ------------------------------------------------------------ specification

LoopStep(l) ==
    \/ LoopTest(l)
    \/ LoopDetect(l)
    \/ StoreLock(l)
    \/ Store(l)
    \/ NotifyLock(l)
    \/ NotifyCopy(l)
    \/ CallbackBegin(l)
    \/ CallbackEnd(l)
    \/ NotifyDone(l)
    \/ Sleep(l)

SaveStep(t) ==
    \/ SaveDetect(t)
    \/ SaveLock(t)
    \/ SaveRelock(t)
    \/ SaveStore(t)
    \/ SaveFile(t)
    \/ SaveReturn(t)

CallerStep(t) ==
    \/ StartCheck(t)
    \/ StartSpawn(t)
    \/ Stop(t)
    \/ GetLock(t)
    \/ GetRead(t)
    \/ GetReturn(t)
    \/ DetectCall(t)
    \/ DetectReturn(t)
    \/ RegCall(t)
    \/ RegLock(t)
    \/ RegPush(t)

\* The monitor with one thread slot and one host thread that uses its whole
\* interface.
Next ==
    \/ EnvChange
    \/ \E l \in Loops : LoopStep(l)
    \/ \E t \in Loops \cup {"T1"} : SaveStep(t)
    \/ CallerStep("T1")

Spec == Init /\ [][Next]_vars

\* The monitor as SrtlaRelay's constructor leaves it (its lambda is the one
\* subscriber), with two thread slots and two host threads that call start()
\* and stop().  The steps left out are never enabled here: the relay's
\* callback does not return (see SaveRelock).
LifecycleInit ==
    /\ host \in HostIds
    /\ enumClock = 0
    /\ m_running = FALSE
    /\ m_interfaces = NoSnapshot
    /\ m_mutex = NoThread
    /\ m_callbacks = <<"relay">>
    /\ pc = [t \in Threads |-> "idle"]
    /\ lastInterfaces = [l \in Loops |-> <<>>]
    /\ currentInterfaces = [l \in Loops |-> NoSnapshot]
    /\ notify_interfaces = [l \in Loops |-> NoSnapshot]
    /\ save_interfaces = [t \in Threads |-> NoSnapshot]
    /\ cbIndex = [l \in Loops |-> 0]
    /\ regArg = [t \in Callers |-> "plain"]
    /\ ipFile = <<>>
    /\ aborted = FALSE
    /\ notified = [l \in Loops |-> FALSE]
    /\ log = [l \in Loops |-> <<>>]
    /\ lastDelivered = 0
    /\ consec = [t \in Callers |-> 0]
    /\ stopped = FALSE
    /\ loopPool = Loops
    /\ hostPool = HostIds
    /\ getResult = [t \in Callers |-> <<>>]
    /\ lastStored = NoSnapshot
    /\ detected = [t \in Callers |-> <<>>]
    /\ saveRet = [t \in Threads |-> <<>>]
    /\ hupSent = [l \in Loops |-> FALSE]
    /\ idleStop = FALSE
    /\ firstIteration = [l \in Loops |-> FALSE]
    /\ destroyed = FALSE
    /\ RelayConfigured

LifecycleNext ==
    \/ EnvChange
    \/ \E l \in Loops :
         \/ LoopTest(l)
         \/ LoopDetect(l)
         \/ StoreLock(l)
         \/ Store(l)
         \/ NotifyLock(l)
         \/ NotifyCopy(l)
         \/ CallbackBegin(l)
         \/ Sleep(l)
         \/ SaveDetect(l)
         \/ SaveRelock(l)
         \/ LoopTestAfterFree(l)
    \/ \E t \in Callers :
         \/ ~destroyed /\ StartCheck(t)
         \/ StartSpawn(t)
         \/ ~destroyed /\ Stop(t)
    \/ ~destroyed /\ toggle_srtla_sender("T1")
    \/ obs_module_unload("T1")

SpecLifecycle == LifecycleInit /\ [][LifecycleNext]_vars

\* The monitor on a machine that moves between all the interface lists, with
\* one thread slot, one subscriber that does not call back into the monitor,
\* and one host thread whose calls do not overlap an iteration of the poll
\* loop: a call begins while the loop is between iterations, and the loop goes
\* on when the call has returned.  The interface list is read by getifaddrs
\* only, the first step of an iteration or of a call, so its changes are taken
\* between iterations and calls.
HostsInit ==
    /\ hostPool = AllHosts
    /\ host \in hostPool
    /\ enumClock = 0
    /\ m_running = FALSE
    /\ m_interfaces = NoSnapshot
    /\ m_mutex = NoThread
    /\ m_callbacks = <<"plain">>
    /\ pc = [t \in Threads |-> "idle"]
    /\ lastInterfaces = [l \in Loops |-> <<>>]
    /\ currentInterfaces = [l \in Loops |-> NoSnapshot]
    /\ notify_interfaces = [l \in Loops |-> NoSnapshot]
    /\ save_interfaces = [t \in Threads |-> NoSnapshot]
    /\ cbIndex = [l \in Loops |-> 0]
    /\ regArg = [t \in Callers |-> "plain"]
    /\ ipFile = <<>>
    /\ aborted = FALSE
    /\ notified = [l \in Loops |-> FALSE]
    /\ log = [l \in Loops |-> <<>>]
    /\ lastDelivered = 0
    /\ consec = [t \in Callers |-> 0]
    /\ stopped = FALSE
    /\ loopPool = {"L1"}
    /\ getResult = [t \in Callers |-> <<>>]
    /\ lastStored = NoSnapshot
    /\ detected = [t \in Callers |-> <<>>]
    /\ saveRet = [t \in Threads |-> <<>>]
    /\ hupSent = [l \in Loops |-> FALSE]
    /\ idleStop = FALSE
    /\ firstIteration = [l \in Loops |-> FALSE]
    /\ destroyed = FALSE
    /\ RelayConfigured

\* The poll loops may step while the host thread is outside every call, and
\* the host thread while every loop is between iterations.
LoopsTurn == pc["T1"] = "idle"
CallersTurn == \A l \in Loops : pc[l] \in {"idle", "while"}

HostsNext ==
    \/ LoopsTurn /\ CallersTurn /\ EnvChange
    \/ \E l \in Loops :
         \/ LoopsTurn /\ LoopTest(l)
         \/ LoopsTurn /\ LoopDetect(l)
         \/ LoopsTurn /\ StoreLock(l)
         \/ LoopsTurn /\ Store(l)
         \/ LoopsTurn /\ NotifyLock(l)
         \/ LoopsTurn /\ NotifyCopy(l)
         \/ LoopsTurn /\ CallbackBegin(l)
         \/ LoopsTurn /\ CallbackEnd(l)
         \/ LoopsTurn /\ NotifyDone(l)
         \/ LoopsTurn /\ Sleep(l)
    \/ \E t \in {"T1"} :
         \/ CallersTurn /\ StartCheck(t)
         \/ CallersTurn /\ StartSpawn(t)
         \/ CallersTurn /\ Stop(t)
         \/ CallersTurn /\ SaveDetect(t)
         \/ CallersTurn /\ SaveLock(t)
         \/ CallersTurn /\ SaveStore(t)
         \/ CallersTurn /\ SaveFile(t)
         \/ CallersTurn /\ SaveReturn(t)
         \/ CallersTurn /\ GetLock(t)
         \/ CallersTurn /\ GetRead(t)
         \/ CallersTurn /\ GetReturn(t)
         \/ CallersTurn /\ DetectCall(t)
         \/ CallersTurn /\ DetectReturn(t)

SpecHosts == HostsInit /\ [][HostsNext]_vars

\* The monitor at the end of obs_module_load, its poll thread asleep.
PluginLoaded ==
    /\ host = 3
    /\ enumClock = 0
    /\ m_running = TRUE
    /\ m_interfaces = NoSnapshot
    /\ m_mutex = NoThread
    /\ m_callbacks = <<"relay">>
    /\ pc = [t \in Threads |-> IF t = "L1" THEN "sleep" ELSE "idle"]
    /\ lastInterfaces = [l \in Loops |-> <<>>]
    /\ currentInterfaces = [l \in Loops |-> NoSnapshot]
    /\ notify_interfaces = [l \in Loops |-> NoSnapshot]
    /\ save_interfaces = [t \in Threads |-> NoSnapshot]
    /\ cbIndex = [l \in Loops |-> 0]
    /\ regArg = [t \in Callers |-> "plain"]
    /\ ipFile = <<>>
    /\ aborted = FALSE
    /\ notified = [l \in Loops |-> FALSE]
    /\ log = [l \in Loops |-> <<>>]
    /\ lastDelivered = 0
    /\ consec = [t \in Callers |-> 0]
    /\ stopped = FALSE
    /\ loopPool = {}
    /\ hostPool = {3}
    /\ getResult = [t \in Callers |-> <<>>]
    /\ lastStored = NoSnapshot
    /\ detected = [t \in Callers |-> <<>>]
    /\ saveRet = [t \in Threads |-> <<>>]
    /\ hupSent = [l \in Loops |-> FALSE]
    /\ idleStop = FALSE
    /\ firstIteration = [l \in Loops |-> FALSE]
    /\ destroyed = FALSE

\* The relay on the UI thread of a running OBS: the plugin is loaded, its
\* settings were read, and the user and OBS raise the events above.  The poll
\* thread is left asleep.
RelayInit ==
    /\ PluginLoaded
    /\ home \in {<<>>, <<HomeDir>>}
    /\ \E expandedOk, tempOk \in BOOLEAN :
         m_ipListPath = ConstructorIpListPath(home, expandedOk, tempOk)
    /\ \E stored \in {<<>>} \cup
                     {<<s>> : s \in [server : Servers, autoStart : {FALSE},
                                      latency : {0, 1000}, useFixedPort : BOOLEAN,
                                      localPort : {0}, bidirectionalSync : BOOLEAN]} :
         RelayIs(loadSettings(ConstructedRelay, stored))
    /\ streaming = "no"
    /\ lastSync = <<>>
    /\ extractIn = <<>>
    /\ extractOut = <<>>

RelayNext ==
    \/ toggle_srtla_sender("T1")
    \/ on_event_STREAMING_STARTING("T1")
    \/ on_event_STREAMING_STOPPING("T1")
    \/ on_event_FINISHED_LOADING("T1")
    \/ srtla_service_initialize("T1")
    \/ SRTLASettingsDialog_saveSettings("T1")

SpecRelay == RelayInit /\ [][RelayNext]_vars

\* extractSRTParamsFromURL on its own: one call on each URL and each value of
\* the caller's port.
ExtractPortTexts ==
    {<<>>, <<"0">>, <<"1">>, <<"9", "0", "0", "1">>, <<"6", "5", "5", "3", "5">>,
     <<"6", "5", "5", "3", "6">>, <<"6", "5", "5", "3", "7">>, <<"7", "0", "0", "0", "0">>,
     <<"a", "b", "c">>, <<"-", "1">>, <<"8", "0", "x">>,
     <<"9", "9", "9", "9", "9", "9", "9", "9", "9", "9", "9">>}

ExtractUrls ==
    [scheme : {"", "srt", "rtmp"},
     port : {<<>>} \cup {<<p>> : p \in ExtractPortTexts},
     latency : {<<>>} \cup {<<l>> : l \in UrlLatencyTexts}]

ExtractInit ==
    /\ PluginLoaded
    /\ home = <<>>
    /\ m_ipListPath = ConstructorIpListPath(home, TRUE, TRUE)
    /\ RelayIs(ConstructedRelay)
    /\ streaming = "no"
    /\ lastSync = <<>>
    /\ extractIn \in {<<x>> : x \in [url : ExtractUrls, port : {0, 9000}]}
    /\ extractOut = <<>>

\* extractSRTParamsFromURL(url, port, latency, streamId) is called and returns.
ExtractCall(t) ==
    /\ pc[t] = "idle"
    /\ extractOut = <<>>
    /\ extractOut' = <<extractSRTParamsFromURL(extractIn[1].url, extractIn[1].port)>>
    /\ UNCHANGED <<monitorFrame, realIpFile, m_processRunning, m_server, m_localPort,
                   m_useFixedPort, m_bidirectionalSync, m_latency, m_autoStart,
                   m_processId, m_ipListPath, home, live, lastCmd, startedBy,
                   streaming, lastSync, extractIn>>

ExtractNext == ExtractCall("T1")

SpecExtract == ExtractInit /\ [][ExtractNext]_vars


\* ------------------------------------------------------------------ claims

\* The poll loops that exist, and those inside the body of while (m_running).
ActiveLoops == {l \in Loops : pc[l] \notin {"idle", "terminated"}}
PollingLoops == {l \in Loops : pc[l] \notin {"idle", "while", "terminated"}}

\* A thread waiting in the constructor of a lock_guard.
WaitsForLock(t) == pc[t] \in {"store_lock", "notify_lock", "save_lock", "reg_lock"}

\* The owner of m_mutex is itself waiting for m_mutex: it never releases it.
OwnerWaits == m_mutex \in Loops /\ pc[m_mutex] = "save_lock"

\* A thread that waits for m_mutex while its owner never releases it.
BlockedForever(t) == WaitsForLock(t) /\ OwnerWaits

\* The positions at which a thread's next statement reads or writes
\* m_interfaces or m_callbacks.
Accessing(t) ==
    pc[t] \in {"store", "notify_copy", "notify_cb", "save_store", "get_read", "reg_push"}

\* How many relevant entries (active, with an address other than 127.0.0.1) of
\* a snapshot carry the address ip.
RECURSIVE RelevantCount(_, _)
RelevantCount(ifs, ip) ==
    IF ifs = <<>> THEN 0
    ELSE (IF /\ Head(ifs).isActive
             /\ Head(ifs).ipAddress = ip
             /\ ip # ""
             /\ ip # "127.0.0.1"
          THEN 1 ELSE 0) + RelevantCount(Tail(ifs), ip)

AddressesOf(ifs) == {ifs[k].ipAddress : k \in 1..Len(ifs)}

\* The relevant addresses of two snapshots differ (an address counts as often
\* as relevant entries carry it, the reading under which the loop's own
\* comparison is exact).
RelevantDiffers(old, new) ==
    \E ip \in AddressesOf(old) \cup AddressesOf(new) :
        RelevantCount(old, ip) # RelevantCount(new, ip)

\* The notification of loop l has called every registered callback once, in
\* registration order.
CalledEachOnce(l) ==
    /\ Len(log[l]) = Len(m_callbacks)
    /\ \A k \in 1..Len(log[l]) : log[l][k].cb = k

\* The range-for of loop l's notification is over (m_mutex is still held, so
\* m_callbacks is the list the notification walked).
RangeForOver(l) == pc[l] = "notify_cb" /\ cbIndex[l] > Len(m_callbacks)

\* Loop l is inside a callback that waits for m_mutex, which l itself holds.
StuckInCallback(l) == pc[l] = "save_lock" /\ m_mutex = l

\* C1: a poll iteration notifies exactly when its relevant addresses differ
\* from those of the previous iteration, and a notification calls every
\* registered callback exactly once: at the end of an iteration the loop has
\* notified iff the relevant addresses changed, and a notification that is
\* over, or that can go no further, has called every callback once.
C1_NotifiedExactlyOnChange ==
    \A l \in Loops :
        /\ pc[l] = "sleep" =>
             (notified[l] <=> RelevantDiffers(lastInterfaces[l], currentInterfaces[l].ifs))
        /\ RangeForOver(l) => CalledEachOnce(l)
        /\ StuckInCallback(l) => CalledEachOnce(l)

\* C2: no thread blocks for ever on the monitor's lock: neither the poll thread
\* inside a notification whose callback calls saveIpListToFile, nor a thread
\* that calls saveIpListToFile or registerCallback meanwhile.
C2_NeverBlockedOnLock ==
    \A t \in Threads : ~BlockedForever(t)

\* C3: at most one poll loop is inside the loop body at any time.
C3_AtMostOneLoop ==
    Cardinality(PollingLoops) <= 1

\* C4: when a thread has called start() twice in a row (no stop() and no
\* start() of another thread in between), exactly one poll loop is active.
C4_StartTwiceOneLoop ==
    \A t \in Callers : consec[t] = 2 => Cardinality(ActiveLoops) = 1

\* C5: after stop() on a running monitor and no later start(), the running flag
\* stays false, so that no iteration begins, and every poll loop can still
\* reach its exit: none is blocked for ever.
C5_StoppedLoopExits ==
    stopped => /\ ~m_running
               /\ \A l \in Loops : ~BlockedForever(l)

\* C6: within one notification the callbacks are called in registration order,
\* each only after the one before it has returned, and all of them receive
\* the same snapshot value.
C6_FanOutOrder ==
    \A l \in Loops :
        \A k \in 1..Len(log[l]) :
            /\ log[l][k].cb = k
            /\ k < Len(log[l]) => log[l][k].done
            /\ log[l][k].arg = log[l][1].arg

\* Two callbacks were called in one notification, the first has returned.
C6_Witness ==
    \E l \in Loops : Len(log[l]) = 2 /\ log[l][1].done /\ m_callbacks[1] # m_callbacks[2]

\* C7: the snapshot a callback receives is the one the poll loop detected in
\* the same iteration.
C7_CallbackGetsCurrent ==
    \A l \in Loops :
        \A k \in 1..Len(log[l]) : log[l][k].arg = currentInterfaces[l].ifs

\* C8: the snapshot passed for a change was enumerated no earlier than the
\* snapshot passed for the change before it.
C8_RecencyMonotone ==
    \A l \in Loops :
        log[l] # <<>> /\ pc[l] # "sleep" => notify_interfaces[l].at >= lastDelivered

\* C9: a thread about to read or write m_interfaces or m_callbacks owns
\* m_mutex, and no two threads are at such a statement at once.
C9_AccessUnderMutex ==
    /\ \A t \in Threads : Accessing(t) => m_mutex = t
    /\ Cardinality({t \in Threads : Accessing(t)}) <= 1

\* The poll thread is inside notifyNetworkChange while a host thread has
\* detected for saveIpListToFile and is at its lock_guard.
C9_Witness ==
    \E l \in Loops : pc[l] = "cb_plain" /\ pc["T1"] = "save_lock"

\* C10: a registerCallback call returns, and the callback is called by every
\* later notification after the callbacks registered before it: the call
\* is never blocked for ever, and a notification that is over, or that can go
\* no further, has called the whole list in registration order.
C10_SubscribeServed ==
    /\ \A t \in Callers : pc[t] = "reg_lock" => ~BlockedForever(t)
    /\ \A l \in Loops :
         /\ RangeForOver(l) => CalledEachOnce(l)
         /\ StuckInCallback(l) => CalledEachOnce(l)

\* C11: getNetworkInterfaces returns exactly the value of the last assignment
\* to m_interfaces (by the poll loop or by saveIpListToFile), and the empty
\* vector when nothing has enumerated yet.
C11_GetReturnsLastStored ==
    [][\A t \in Callers :
          (getResult[t] = <<>> /\ getResult'[t] # <<>>) =>
              /\ getResult'[t] = <<lastStored>>
              /\ enumClock = 0 => getResult'[t][1].ifs = <<>>]_vars

\* A call returned a snapshot that saveIpListToFile or the poll loop stored.
C11_Witness ==
    \E t \in Callers : getResult[t] # <<>> /\ getResult[t][1].ifs # <<>>

\* C12: a direct call of detectNetworkInterfaces leaves m_interfaces,
\* m_callbacks, m_running, m_mutex, every poll loop's lastInterfaces and the IP
\* list file as they are, and no callback is called by it.
C12_DetectHasNoEffect ==
    [][\A t \in Callers :
          (detected[t] = <<>> /\ detected'[t] # <<>>) =>
              UNCHANGED <<m_interfaces, m_callbacks, m_running, m_mutex,
                          lastInterfaces, log, notified, ipFile>>]_vars

\* A direct call returned addresses while a poll loop holds a baseline that
\* differs from them and the stored snapshot differs too.
C12_Witness ==
    \E t \in Callers : \E l \in Loops :
        /\ detected[t] # <<>>
        /\ detected[t][1] # <<>>
        /\ lastInterfaces[l] # <<>>
        /\ lastInterfaces[l] # detected[t][1]
        /\ m_interfaces.ifs # detected[t][1]

\* The relevant set of a snapshot as the specification defines it: the entries
\* that are active and have an address other than 127.0.0.1, in snapshot order.
InRelevantSet(iface) ==
    iface.isActive /\ iface.ipAddress # "" /\ iface.ipAddress # "127.0.0.1"

RelevantEntries(ifs) == SelectSeq(ifs, InRelevantSet)

\* One line per entry of the relevant set, in snapshot order.
RelevantLines(ifs) ==
    [k \in 1..Len(RelevantEntries(ifs)) |-> RelevantEntries(ifs)[k].ipAddress]

\* The set of relevant address strings of a snapshot.
RelevantAddresses(ifs) ==
    {RelevantEntries(ifs)[k].ipAddress : k \in 1..Len(RelevantEntries(ifs))}

C14_FailsOnlyOnOpen ==
    \A t \in Callers :
        pc[t] = "save_ret" =>
            /\ saveRet[t][1].result <=> saveRet[t][1].opened
            /\ (saveRet[t][1].opened /\ RelevantEntries(save_interfaces[t].ifs) = <<>>)
                  => ipFile = <<>>

\* A call that detected entries, none of them relevant, returned true.
C14_Witness ==
    \E t \in Callers :
        /\ pc[t] = "save_ret"
        /\ saveRet[t][1].result
        /\ save_interfaces[t].ifs # <<>>
        /\ RelevantEntries(save_interfaces[t].ifs) = <<>>
        /\ ipFile = <<>>

\* The vectors detectNetworkInterfaces has returned and that a thread holds.
DetectedSnapshots ==
    {detected[t][1] : t \in {c \in Callers : detected[c] # <<>>}}
        \cup {currentInterfaces[l].ifs : l \in Loops}
        \cup {save_interfaces[t].ifs : t \in Threads}

\* C15: no entry of a snapshot returned by detectNetworkInterfaces has the
\* name lo or the address 127.0.0.1.
C15_NoLoopbackEntry ==
    \A ifs \in DetectedSnapshots :
        \A k \in 1..Len(ifs) : ifs[k].name # "lo" /\ ifs[k].ipAddress # "127.0.0.1"

\* C16: a poll iteration whose enumeration failed has the empty vector, and the
\* loop goes on after it: it is neither blocked for ever nor ended with the
\* process.
C16_FailureDoesNotEndLoop ==
    \A l \in Loops :
        ~currentInterfaces[l].ok =>
            /\ currentInterfaces[l].ifs = <<>>
            /\ ~BlockedForever(l)
            /\ pc[l] # "terminated"

\* What a successful enumeration returns on the machine as it is now.
HostNow == detectNetworkInterfaces(HostConfigs[host], TRUE)

\* Loop l is running between two iterations with a baseline that matches the
\* machine, and no call of a host thread is under way: while the machine stays
\* as it is and no further call is made, every later iteration finds no
\* change and m_interfaces is not assigned again.
Settled(l) ==
    /\ m_running
    /\ pc[l] = "while"
    /\ ~haveInterfacesChanged(lastInterfaces[l], HostNow)
    /\ \A t \in Callers : pc[t] = "idle"

\* C17: once the machine's relevant addresses are stable and the poll loop has
\* caught up with them, the relevant addresses of the stored snapshot are
\* those of the machine.
C17_SnapshotTracksHost ==
    \A l \in Loops :
        Settled(l) => RelevantAddresses(m_interfaces.ifs) = RelevantAddresses(HostNow)

\* C18: a change notified while the relay process is marked running has its
\* HUP sent: the relay's callback, called with m_processRunning set, is not
\* blocked for ever before it has run killall -HUP; and the signal is sent
\* only once the rewrite of the file is over.
C18_ReloadSignalSent ==
    \A l \in Loops :
        /\ (StuckInCallback(l) /\ log[l][Len(log[l])].running) => hupSent[l]
        /\ hupSent[l] => save_interfaces[l] = NoSnapshot

\* C19: stop() is idempotent and non-blocking.  A thread outside any other
\* call can always take the step of stop(), whatever the loops are doing; the
\* step returns at once (the caller is outside any call after it), starts and
\* ends no loop, moves no thread, raises nothing and touches neither the
\* snapshot, the mutex, the callbacks nor the file; and when the monitor is
\* not running it leaves m_running as it was.
C19_StopIdempotentNonBlocking ==
    /\ [](\A t \in Callers : pc[t] = "idle" => ENABLED Stop(t))
    /\ [][\A t \in Callers : Stop(t) =>
            /\ pc' = pc
            /\ aborted' = aborted
            /\ UNCHANGED <<m_interfaces, m_mutex, m_callbacks, loopVars, ipFile>>
            /\ ~m_running => m_running' = m_running]_vars

\* stop() was called on a monitor that was not running while a loop started
\* earlier is still in an iteration and holds the mutex
C19_Witness ==
    /\ idleStop
    /\ ~m_running
    /\ \E l \in Loops : pc[l] \notin {"idle", "while", "terminated"} /\ m_mutex = l

\* The loop's call of haveInterfacesChanged(lastInterfaces, currentInterfaces)
\* in this iteration returned true / returned false.
ChangeSignalled(l) == pc[l] \in {"store_lock", "store"}

NoChangeSignalled(l) == pc[l] = "sleep" /\ ~notified[l]

\* No two relevant entries of the snapshot carry the same address.
DistinctAddresses(ifs) == Len(RelevantEntries(ifs)) = Cardinality(RelevantAddresses(ifs))

\* C20: change detection is membership-sensitive.  Whenever the sets of relevant
\* address strings of the previous and the current snapshot differ (an address
\* added, removed or swapped), haveInterfacesChanged signals a change; and for
\* two snapshots with the same addresses, each carried once, it signals none.
C20_MembershipSensitive ==
    \A l \in Loops :
        /\ NoChangeSignalled(l) =>
              RelevantAddresses(lastInterfaces[l]) = RelevantAddresses(currentInterfaces[l].ifs)
        /\ (/\ ChangeSignalled(l)
            /\ DistinctAddresses(lastInterfaces[l])
            /\ DistinctAddresses(currentInterfaces[l].ifs)) =>
              RelevantAddresses(lastInterfaces[l]) # RelevantAddresses(currentInterfaces[l].ifs)

\* A swap: as many addresses as before, one of them replaced, and the change
\* was signalled.
C20_Witness ==
    \E l \in Loops :
        /\ ChangeSignalled(l)
        /\ RelevantAddresses(lastInterfaces[l]) = {"192.168.1.5", "192.168.1.9"}
        /\ RelevantAddresses(currentInterfaces[l].ifs) = {"192.168.1.5", "10.64.0.2"}

\* C21: change detection compares sets of address strings.  Whenever the
\* previous and the current snapshot have the same set of relevant addresses,
\* haveInterfacesChanged signals no change, whatever the order of the entries
\* and however many relevant entries carry each address.
C21_ComparesSets ==
    \A l \in Loops :
        ChangeSignalled(l) =>
            RelevantAddresses(lastInterfaces[l]) # RelevantAddresses(currentInterfaces[l].ifs)

\* The relevant interfaces of a snapshot, each as its name with its address.
RelevantInterfaces(ifs) ==
    {<<RelevantEntries(ifs)[k].name, RelevantEntries(ifs)[k].ipAddress>> :
        k \in 1..Len(RelevantEntries(ifs))}

\* C22: whenever, from one poll iteration to the next, a relevant interface
\* appeared, disappeared or changed its address, the later iteration signals a
\* change (and so notifies): an iteration that signals none found the same
\* relevant interfaces with the same addresses as the iteration before.
C22_InterfaceChangeSignalled ==
    \A l \in Loops :
        NoChangeSignalled(l) =>
            RelevantInterfaces(lastInterfaces[l]) = RelevantInterfaces(currentInterfaces[l].ifs)

\* C23: each poll loop starts with an empty baseline.  Throughout the first
\* iteration after start() lastInterfaces is empty; once that iteration has
\* compared, it notifies iff the detected relevant set is non-empty; when it
\* is empty no callback has run, and the steps that end the iteration leave
\* the stored snapshot as it was; and the end of every iteration replaces the
\* baseline with the current detection, whether or not a change fired.
C23_EmptyBaseline ==
    /\ [](\A l \in Loops : firstIteration[l] =>
            /\ lastInterfaces[l] = <<>>
            /\ pc[l] \notin {"idle", "while", "detect"} =>
                  (NoChangeSignalled(l) <=> RelevantAddresses(currentInterfaces[l].ifs) = {})
            /\ NoChangeSignalled(l) => log[l] = <<>>)
    /\ [][\A l \in Loops :
            /\ (firstIteration[l] /\ NoChangeSignalled(l)) => m_interfaces' = m_interfaces
            /\ (pc[l] = "sleep" /\ pc'[l] = "while") =>
                  lastInterfaces'[l] = currentInterfaces[l].ifs]_vars

\* A first iteration found entries, none of them relevant, and notified
\* nobody, while a snapshot stored by an earlier saveIpListToFile is in place.
C23_Witness ==
    \E l \in Loops :
        /\ firstIteration[l]
        /\ NoChangeSignalled(l)
        /\ currentInterfaces[l].ifs # <<>>
        /\ m_interfaces.ifs # <<>>
        /\ m_interfaces.ifs # currentInterfaces[l].ifs

\* C24: no partial notification.  When stop() has been called on the running
\* monitor, a notification in flight still calls every registered callback:
\* one that is over, or that can go no further, has called the whole list; and
\* the loop is not ended in the middle of the notification.
C24_NoPartialNotification ==
    \A l \in Loops :
        (stopped /\ notified[l]) =>
            /\ (RangeForOver(l) \/ StuckInCallback(l)) => CalledEachOnce(l)
            /\ pc[l] # "terminated"

\* Loop l has compared a detection without any relevant interface.
NoRelevantDetected(l) ==
    /\ pc[l] \notin {"idle", "while", "detect"}
    /\ RelevantAddresses(currentInterfaces[l].ifs) = {}

\* Loop l has stored its detection and is notifying for it.
StoredAndNotifying(l) ==
    pc[l] \in {"notify_lock", "notify_copy", "notify_cb", "cb_plain", "cb_relay"}

IsEth0Entry(iface) ==
    iface.name = "eth0" /\ iface.ipAddress = "192.168.1.5" /\ iface.isActive

C27_UniqueNames ==
    \A ifs \in DetectedSnapshots :
        \A j, k \in 1..Len(ifs) : ifs[j].name = ifs[k].name => j = k

\* A snapshot with the classification flags of every entry replaced.
Reflag(ifs, f) ==
    [k \in 1..Len(ifs) |->
        [ifs[k] EXCEPT !.isEthernet = f[1], !.isWireless = f[2], !.isModem = f[3]]]

FlagValues == BOOLEAN \X BOOLEAN \X BOOLEAN

\* C28: the classification flags never influence change detection.  Whatever
\* isEthernet, isWireless and isModem values the entries of the previous and
\* of the current snapshot are given, haveInterfacesChanged returns what the
\* loop's comparison of the two snapshots returned.
C28_FlagsIgnored ==
    \A l \in Loops :
        (pc[l] = "store_lock" \/ NoChangeSignalled(l)) =>
            \A f, g \in FlagValues :
                haveInterfacesChanged(Reflag(lastInterfaces[l], f),
                                      Reflag(currentInterfaces[l].ifs, g))
                    = ChangeSignalled(l)

\* No change was signalled between a snapshot with a wireless interface and
\* one without, both with relevant addresses.
C28_Witness ==
    \E l \in Loops :
        /\ NoChangeSignalled(l)
        /\ RelevantAddresses(lastInterfaces[l]) # {}
        /\ \E k \in 1..Len(lastInterfaces[l]) : lastInterfaces[l][k].isWireless
        /\ \A k \in 1..Len(currentInterfaces[l].ifs) : ~currentInterfaces[l].ifs[k].isWireless

\* C29: the IP list file handed to the relay process never contains
\* placeholder content: every line of it is the address of an interface in
\* the relevant set of the detection made for that write.
C29_NoPlaceholderLine ==
    \A k \in 1..Len(realIpFile.lines) :
        realIpFile.lines[k] \in RelevantAddresses(realIpFile.from)

\* C30: once the NetworkMonitor has been destroyed, no poll thread reads or
\* writes its running flag, its mutex, its stored snapshot or its callback
\* list, or calls a callback: the only steps a poll thread still takes are the
\* enumeration and the sleep, which use nothing of the monitor.
C30_NoAccessAfterDestroy ==
    [][destroyed =>
          \A l \in Loops : pc'[l] # pc[l] => pc[l] \in {"detect", "sleep"}]_vars

\* A host thread is inside saveIpListToFile.
InSave(t) == pc[t] \in {"save_lock", "save_store", "save_file", "save_ret"}

\* C31: saveIpListToFile stores its detection before it opens the file: once
\* the call is at the open, and when it returns, with success or with failure,
\* the stored snapshot is the call's detection; and no step of the call calls
\* a callback or changes the baseline of a poll loop.
C31_StoresBeforeOpen ==
    /\ [](\A t \in Callers :
            pc[t] \in {"save_file", "save_ret"} => m_interfaces = save_interfaces[t])
    /\ [][\A t \in Callers :
            (InSave(t) /\ pc'[t] # pc[t]) =>
                UNCHANGED <<lastInterfaces, log, notified, cbIndex, notify_interfaces>>]_vars

\* A call returned failure with a detection that differs from the baseline of
\* a running poll loop, and the detection is the stored snapshot.
C31_Witness ==
    \E t \in Callers : \E l \in Loops :
        /\ pc[t] = "save_ret"
        /\ ~saveRet[t][1].result
        /\ save_interfaces[t].ifs # <<>>
        /\ m_interfaces = save_interfaces[t]
        /\ pc[l] = "while"
        /\ lastInterfaces[l] # <<>>
        /\ lastInterfaces[l] # save_interfaces[t].ifs

\* C32: whatever events the host raises, at most one relay process that the
\* plugin launched is alive, and m_processRunning is true exactly when one is:
\* no relay is launched while one is marked running.
C32_SingleRelay ==
    /\ live <= 1
    /\ m_processRunning <=> (live = 1)

\* C33: the file that is rewritten on a network change, at m_ipListPath, is
\* the file whose path startSrtlaProcess gives to the relay process, with HOME
\* set and with HOME unset.
C33_SameIpListFile ==
    lastCmd # <<>> => lastCmd[1].ipList = m_ipListPath

\* C34: when streaming stops, the relay is stopped only if the plugin itself
\* started it when streaming started (the auto-start, or the initialization of
\* the plugin's service); a relay started from the menu stays marked running,
\* whatever the auto-start setting is.
C34_AutoStopOnlyAutoStarted ==
    [][(streaming # "no" /\ streaming' = "no" /\ m_processRunning) =>
           /\ ~m_processRunning' => startedBy \in {"auto", "service"}
           /\ startedBy = "manual" => m_processRunning']_vars

\* C35: a relay start made with bidirectional sync enabled uses the local
\* port that is configured (9000 if it is 0), not a random one, and leaves the
\* fixed-port flag true.
C35_SyncStartsOnConfiguredPort ==
    (lastCmd # <<>> /\ lastCmd[1].sync) =>
        /\ lastCmd[1].localPort =
               (IF lastCmd[1].configured = 0 THEN 9000 ELSE lastCmd[1].configured)
        /\ lastCmd[1].fixed

\* A relay was started with bidirectional sync enabled while the fixed-port
\* flag was off, and is running on the configured port.
C35_Witness ==
    /\ lastCmd # <<>>
    /\ lastCmd[1].sync
    /\ ~lastCmd[1].fixedBefore
    /\ lastCmd[1].fixed
    /\ lastCmd[1].localPort = lastCmd[1].configured
    /\ m_processRunning

\* C36: the latency setting stays between 1000 and 8000 ms, whatever
\* settings were loaded and whatever the dialog and the syncs from the OBS
\* service did since.
C36_LatencyInRange ==
    m_latency >= 1000 /\ m_latency <= 8000

\* C37: a sync from an OBS URL that carries latency=L leaves the relay's
\* latency at L, for every L, 2000 included.
C37_SyncTakesUrlLatency ==
    lastSync # <<>> => m_latency = lastSync[1]

\* The text is a number: digits and nothing else.
IsNumeric(text) == text # <<>> /\ DigitPrefix(text) = text

\* C38: extractSRTParamsFromURL of an SRT URL gives the URL's port if that is
\* a number from 1 to 65535, and otherwise (no port, 0, not a number, above
\* 65535) the port the caller passed in.
C38_PortOnlyIfValid ==
    (extractOut # <<>> /\ extractIn[1].url.scheme = "srt") =>
        LET given   == extractIn[1].url.port
            numeric == given # <<>> /\ IsNumeric(given[1]) /\ Len(SkipZeros(given[1])) <= 5
            number  == IF numeric THEN Decimal(SkipZeros(given[1]), 1, 0) ELSE 0
        IN  extractOut[1].port =
                (IF number >= 1 /\ number <= 65535 THEN number ELSE extractIn[1].port)

====
